---- MODULE Spec2Model ----
(***************************************************************************)
(* Resource lifecycle and evidence/result marshalling layer around the     *)
(* 51Degrees device-detection engine (src/src/device_detection.rs,         *)
(* src/src/utils.rs).                                                      *)
(*                                                                         *)
(* A Rust &str is a sequence of byte codes; 0 is the NUL byte.  Native     *)
(* handles are indices into `heap`, the engine's allocation table; 0 is    *)
(* the null pointer.  The engine itself is an opaque collaborator: what    *)
(* it returns is drawn nondeterministically at every call.                 *)
(***************************************************************************)
EXTENDS Integers, Sequences, FiniteSets, TLC

VARIABLES
    heap,       \* engine allocation table: handle -> [kind, frees, dataset, entries]
    managers,   \* handles owned by live Manager values (Manager.instance)
    views,      \* handles owned by live ResultData values (ResultData.results_ptr)
    origin,     \* per ResultData: the manager and evidence slice detect was called with
    pc,         \* position of the detect call in flight, "idle" between public calls
    frame,      \* locals of the detect call in flight
    calls,      \* engine calls made by the current (or last) public operation, in order
    raised,     \* status the engine raised as an exception during that operation
    ret         \* what the last public operation returned

vars == <<heap, managers, views, origin, pc, frame, calls, raised, ret>>

----------------------------------------------------------------------------
\* Bounds of the model.

MaxHandles == 4     \* native allocations the engine hands out in one run
MaxPairs == 2       \* longest evidence slice given to detect

----------------------------------------------------------------------------
\* Strings.

NUL == 0
Null == 0

HasNul(s) == \E i \in 1..Len(s) : s[i] = NUL

\* "user-agent", "sec-ch-ua", "sec-ch-platform"
StrUserAgent == <<117, 115, 101, 114, 45, 97, 103, 101, 110, 116>>
StrSecChUa == <<115, 101, 99, 45, 99, 104, 45, 117, 97>>
StrSecChPlatform == <<115, 101, 99, 45, 99, 104, 45, 112, 108, 97, 116, 102, 111, 114, 109>>

\* EvidenceName with the serialize attribute of SecChUa repeated on
\* SecChPlatform.
EvidenceName_as_str_repeated_attribute(name) ==
    CASE name.variant = "Custom" -> name.token
      [] name.variant = "UserAgent" -> StrUserAgent
      [] name.variant = "SecChUa" -> StrSecChUa
      [] name.variant = "SecChPlatform" -> StrSecChUa

\* EvidenceName::as_str: the strum token of an enumerated name, the caller's
\* token for Custom.
EvidenceName_as_str(name) ==
    CASE name.variant = "Custom" -> name.token
      [] name.variant = "UserAgent" -> StrUserAgent
      [] name.variant = "SecChUa" -> StrSecChUa
      [] name.variant = "SecChPlatform" -> StrSecChPlatform

----------------------------------------------------------------------------
\* Error taxonomy (utils.rs).  An error is a tuple headed by its variant.

Ok(v) == [ok |-> TRUE, val |-> v, err |-> <<>>]
Err(e) == [ok |-> FALSE, val |-> <<>>, err |-> e]

CStringCreationError(kind) == <<"CStringCreationError", kind>>
InternalApiError(operation, status, description, msg) ==
    <<"InternalApiError", operation, status, description, msg>>
UnsafeOperationError(msg) == <<"UnsafeOperationError", msg>>
AssertionError(operation, detail) == <<"AssertionError", operation, detail>>
IOError(context) == <<"IOError", context>>

\* #[strum(serialize = ...)] of CStringKind
CStringKindDisplay(kind) ==
    CASE kind = "FilePath" -> "evidence key"
      [] kind = "EvidenceKey" -> "evidence value"
      [] kind = "EvidenceValue" -> "evidence value"
      [] kind = "PropertyName" -> "property name"
      [] kind = "HashResultSeparator" -> "hash result separator"

\* #[strum(serialize = ...)] of Operation
OperationDisplay(operation) ==
    CASE operation = "ReadDataFile" -> "read data file"
      [] operation = "InitManager" -> "initialize manager"
      [] operation = "CreateEvidence" -> "create evidence"
      [] operation = "ApplyEvidence" -> "apply evidence"
      [] operation = "ReadProperty" -> "read property"

\* #[strum(serialize = ...)] of ReadFileError, taken with as_ref()
ReadFileErrorStr(e) ==
    CASE e = "NotExists" -> "file does not exist"
      [] e = "IsNotFile" -> "is not a file"

new_read_file_assertion_error(e) == AssertionError("ReadDataFile", ReadFileErrorStr(e))

\* CString::new(str).map_err(|_| CStringCreationError(kind)): fails exactly on
\* an interior NUL byte.
build_cstring(kind, str) ==
    IF HasNul(str) THEN Err(CStringCreationError(kind)) ELSE Ok(str)

\* The engine's status vocabulary, by the names of the bindings' constants.
SUCCESS == "SUCCESS"

KnownStatus ==
    { "SUCCESS", "INSUFFICIENT_MEMORY", "CORRUPT_DATA", "INCORRECT_VERSION",
      "FILE_NOT_FOUND", "FILE_BUSY", "FILE_FAILURE", "NOT_SET",
      "POINTER_OUT_OF_BOUNDS", "NULL_POINTER", "TOO_MANY_OPEN_FILES",
      "REQ_PROP_NOT_PRESENT", "PROFILE_EMPTY", "COLLECTION_FAILURE",
      "FILE_COPY_ERROR", "FILE_EXISTS_ERROR", "FILE_WRITE_ERROR",
      "FILE_READ_ERROR", "FILE_PERMISSION_DENIED", "FILE_PATH_TOO_LONG",
      "FILE_END_OF_DOCUMENT", "FILE_END_OF_DOCUMENTS", "FILE_END_OF_FILE",
      "ENCODING_ERROR", "INVALID_COLLECTION_CONFIG", "INVALID_CONFIG",
      "INSUFFICIENT_HANDLES", "COLLECTION_INDEX_OUT_OF_RANGE",
      "COLLECTION_OFFSET_OUT_OF_RANGE", "COLLECTION_FILE_SEEK_FAIL",
      "COLLECTION_FILE_READ_FAIL", "INCORRECT_IP_ADDRESS_FORMAT",
      "TEMP_FILE_ERROR" }

\* A status_to_error_message that tells success, a known failure and an
\* unknown code apart and nothing more.
status_to_error_message_by_class(status) ==
    IF status = "SUCCESS" THEN "Success"
    ELSE IF status \in KnownStatus THEN "File failure"
    ELSE "Unknown error"

status_to_error_message(status) ==
    CASE status = "SUCCESS" -> "Success"
      [] status = "INSUFFICIENT_MEMORY" -> "Lack of memory"
      [] status = "CORRUPT_DATA" -> "Corrupt data"
      [] status = "INCORRECT_VERSION" -> "Incorrect version"
      [] status = "FILE_NOT_FOUND" -> "File not found"
      [] status = "FILE_BUSY" -> "File busy"
      [] status = "FILE_FAILURE" -> "File failure"
      [] status = "NOT_SET" -> "Not set (should never be returned)"
      [] status = "POINTER_OUT_OF_BOUNDS" -> "Pointer out of bounds"
      [] status = "NULL_POINTER" -> "Null pointer"
      [] status = "TOO_MANY_OPEN_FILES" -> "Too many open files"
      [] status = "REQ_PROP_NOT_PRESENT" -> "Required property not present"
      [] status = "PROFILE_EMPTY" -> "Profile is empty"
      [] status = "COLLECTION_FAILURE" -> "Collection failure"
      [] status = "FILE_COPY_ERROR" -> "File copy error"
      [] status = "FILE_EXISTS_ERROR" -> "File exists error"
      [] status = "FILE_WRITE_ERROR" -> "File write error"
      [] status = "FILE_READ_ERROR" -> "File read error"
      [] status = "FILE_PERMISSION_DENIED" -> "File permission denied"
      [] status = "FILE_PATH_TOO_LONG" -> "File path too long"
      [] status = "FILE_END_OF_DOCUMENT" -> "File end of document"
      [] status = "FILE_END_OF_DOCUMENTS" -> "File end of documents"
      [] status = "FILE_END_OF_FILE" -> "File end of file"
      [] status = "ENCODING_ERROR" -> "Encoding error"
      [] status = "INVALID_COLLECTION_CONFIG" -> "Invalid collection config"
      [] status = "INVALID_CONFIG" -> "Invalid config"
      [] status = "INSUFFICIENT_HANDLES" -> "Insufficient handles"
      [] status = "COLLECTION_INDEX_OUT_OF_RANGE" -> "Collection index out of range"
      [] status = "COLLECTION_OFFSET_OUT_OF_RANGE" -> "Collection offset out of range"
      [] status = "COLLECTION_FILE_SEEK_FAIL" -> "Collection file seek fail"
      [] status = "COLLECTION_FILE_READ_FAIL" -> "Collection file read fail"
      [] status = "INCORRECT_IP_ADDRESS_FORMAT" -> "Incorrect IP address format"
      [] status = "TEMP_FILE_ERROR" -> "Temp file error"
      [] OTHER -> "Unknown error"

\* An exception out-parameter: a pointer, null or not, and the struct it
\* addresses when it is not null.  A message of "" is a null message pointer.
ExceptionPtr == [null : BOOLEAN, status : STRING, message : STRING]

\* let exception = null_mut();
null_mut_exception == [null |-> TRUE, status |-> "NOT_SET", message |-> ""]

ger_error_msg(exception) ==
    IF exception.null THEN "No exception available"
    ELSE IF exception.message # "" THEN exception.message
    ELSE "No error message available"

verify_exception(exception, operation) ==
    IF ~exception.null /\ exception.status # SUCCESS
    THEN Err(InternalApiError(operation, exception.status,
                              status_to_error_message(exception.status),
                              ger_error_msg(exception)))
    ELSE Ok(<<>>)

\* verify_data_file_path with the two checks in the other order.
verify_data_file_path_is_file_first(path) ==
    IF ~path.is_file THEN Err(new_read_file_assertion_error("IsNotFile"))
    ELSE IF ~path.exists THEN Err(new_read_file_assertion_error("NotExists"))
    ELSE Ok(<<>>)

\* path.exists() and path.is_file() of the host file system.
verify_data_file_path(path) ==
    IF ~path.exists THEN Err(new_read_file_assertion_error("NotExists"))
    ELSE IF ~path.is_file THEN Err(new_read_file_assertion_error("IsNotFile"))
    ELSE Ok(<<>>)

----------------------------------------------------------------------------
\* The engine (lib51degrees, reached through the generated bindings).  Its
\* allocation table `heap` maps a handle to
\*   kind     "manager" | "evidence" | "results"
\*   frees    how many times the handle was passed to its free function
\*   dataset  results: the manager resource the result was created against
\*   capacity evidence: the capacity it was created with
\*   entries  evidence: the (key pointer, value pointer) pairs registered
\*   matched  results: the evidence value the engine matched the result on
\* Every operator takes the table and returns the table after the call.

Cell(kind, dataset, capacity) ==
    [kind |-> kind, frees |-> 0, dataset |-> dataset, capacity |-> capacity,
     entries |-> <<>>, matched |-> <<>>]

Live(h, p) == p \in 1..Len(h) /\ h[p].frees = 0

\* One entry of the call log: the function, the handle it was given (Null
\* if none), whether every pointer it was given was valid at the call, its
\* other arguments and what it returned.
Call(fn, p, valid, args, out) ==
    [fn |-> fn, h |-> p, valid |-> valid, args |-> args, out |-> out]

\* The exception protocol: the engine writes the struct only through a
\* non-null pointer.
EngineSetException(exception, status) ==
    IF exception.null \/ status = SUCCESS THEN exception
    ELSE [null |-> FALSE, status |-> status, message |-> "engine message"]

\* Any of the three free functions: the handle is released, and what it held
\* is gone.
EngineFree(h, p) ==
    IF p \in 1..Len(h)
    THEN [h EXCEPT ![p] = [Cell(@.kind, Null, 0) EXCEPT !.frees = h[p].frees + 1]]
    ELSE h

\* Dataset load: on a success status the manager resource is initialised.
\* The engine reads the allow-list through `properties`: nothing for a null
\* pointer, the string of the struct it addresses while that struct exists,
\* and afterwards whatever the memory holds by then, the old struct or not.
fiftyoneDegreesHashInitManagerFromFile(h, properties, path, exception, eng) ==
    [status |-> eng.status,
     required |-> IF properties.null THEN <<>>
                  ELSE IF properties.in_scope \/ ~eng.clobbered THEN <<properties.string>>
                  ELSE <<<<255>>>>,
     exception |-> EngineSetException(exception, eng.raise),
     instance |-> IF eng.status = SUCCESS THEN Len(h) + 1 ELSE Null,
     heap |-> IF eng.status = SUCCESS THEN Append(h, Cell("manager", Null, 0)) ELSE h]

----------------------------------------------------------------------------
\* Identifier catalog.

\* "IsMobile", "BrowserName", "BrowserVendor", "HardwareName"
StrIsMobile == <<73, 115, 77, 111, 98, 105, 108, 101>>
StrBrowserName == <<66, 114, 111, 119, 115, 101, 114, 78, 97, 109, 101>>
StrBrowserVendor == <<66, 114, 111, 119, 115, 101, 114, 86, 101, 110, 100, 111, 114>>
StrHardwareName == <<72, 97, 114, 100, 119, 97, 114, 101, 78, 97, 109, 101>>

\* #[derive(AsRefStr)] of PropertyName: an enumerated variant gives its own
\* name, spelled as in the enum.
PropertyName_as_ref(name) ==
    CASE name.variant = "DeviceId" -> <<68, 101, 118, 105, 99, 101, 73, 100>>
      [] name.variant = "DeviceType" -> <<68, 101, 118, 105, 99, 101, 84, 121, 112, 101>>
      [] name.variant = "CrawlerName" -> <<67, 114, 97, 119, 108, 101, 114, 78, 97, 109, 101>>
      [] name.variant = "HasTouchScreen" -> <<72, 97, 115, 84, 111, 117, 99, 104, 83, 99, 114, 101, 101, 110>>
      [] name.variant = "IsScreenFoldable" -> <<73, 115, 83, 99, 114, 101, 101, 110, 70, 111, 108, 100, 97, 98, 108, 101>>
      [] name.variant = "IsSmallScreen" -> <<73, 115, 83, 109, 97, 108, 108, 83, 99, 114, 101, 101, 110>>
      [] name.variant = "IsEmailBrowser" -> <<73, 115, 69, 109, 97, 105, 108, 66, 114, 111, 119, 115, 101, 114>>
      [] name.variant = "IsEmulatingDesktop" -> <<73, 115, 69, 109, 117, 108, 97, 116, 105, 110, 103, 68, 101, 115, 107, 116, 111, 112>>
      [] name.variant = "IsEmulatingDevice" -> <<73, 115, 69, 109, 117, 108, 97, 116, 105, 110, 103, 68, 101, 118, 105, 99, 101>>
      [] name.variant = "IsWebApp" -> <<73, 115, 87, 101, 98, 65, 112, 112>>
      [] name.variant = "IsConsole" -> <<73, 115, 67, 111, 110, 115, 111, 108, 101>>
      [] name.variant = "IsEReader" -> <<73, 115, 69, 82, 101, 97, 100, 101, 114>>
      [] name.variant = "IsMediaHub" -> <<73, 115, 77, 101, 100, 105, 97, 72, 117, 98>>
      [] name.variant = "IsMobile" -> <<73, 115, 77, 111, 98, 105, 108, 101>>
      [] name.variant = "IsSmartWatch" -> <<73, 115, 83, 109, 97, 114, 116, 87, 97, 116, 99, 104>>
      [] name.variant = "IsTablet" -> <<73, 115, 84, 97, 98, 108, 101, 116>>
      [] name.variant = "IsTv" -> <<73, 115, 84, 118>>
      [] name.variant = "IsCrawler" -> <<73, 115, 67, 114, 97, 119, 108, 101, 114>>
      [] name.variant = "IsArtificialIntelligence" -> <<73, 115, 65, 114, 116, 105, 102, 105, 99, 105, 97, 108, 73, 110, 116, 101, 108, 108, 105, 103, 101, 110, 99, 101>>
      [] name.variant = "NativeBrand" -> <<78, 97, 116, 105, 118, 101, 66, 114, 97, 110, 100>>
      [] name.variant = "NativeDevice" -> <<78, 97, 116, 105, 118, 101, 68, 101, 118, 105, 99, 101>>
      [] name.variant = "NativeModel" -> <<78, 97, 116, 105, 118, 101, 77, 111, 100, 101, 108>>
      [] name.variant = "NativeName" -> <<78, 97, 116, 105, 118, 101, 78, 97, 109, 101>>
      [] name.variant = "NativePlatform" -> <<78, 97, 116, 105, 118, 101, 80, 108, 97, 116, 102, 111, 114, 109>>
      [] name.variant = "BrowserFamily" -> <<66, 114, 111, 119, 115, 101, 114, 70, 97, 109, 105, 108, 121>>
      [] name.variant = "BrowserName" -> <<66, 114, 111, 119, 115, 101, 114, 78, 97, 109, 101>>
      [] name.variant = "BrowserVendor" -> <<66, 114, 111, 119, 115, 101, 114, 86, 101, 110, 100, 111, 114>>
      [] name.variant = "BrowserVersion" -> <<66, 114, 111, 119, 115, 101, 114, 86, 101, 114, 115, 105, 111, 110>>
      [] name.variant = "BrowserReleaseYear" -> <<66, 114, 111, 119, 115, 101, 114, 82, 101, 108, 101, 97, 115, 101, 89, 101, 97, 114>>
      [] name.variant = "BrowserSourceProject" -> <<66, 114, 111, 119, 115, 101, 114, 83, 111, 117, 114, 99, 101, 80, 114, 111, 106, 101, 99, 116>>
      [] name.variant = "BrowserSourceProjectVersion" -> <<66, 114, 111, 119, 115, 101, 114, 83, 111, 117, 114, 99, 101, 80, 114, 111, 106, 101, 99, 116, 86, 101, 114, 115, 105, 111, 110>>
      [] name.variant = "BrowserRank" -> <<66, 114, 111, 119, 115, 101, 114, 82, 97, 110, 107>>
      [] name.variant = "Canvas" -> <<67, 97, 110, 118, 97, 115>>
      [] name.variant = "CookiesCapable" -> <<67, 111, 111, 107, 105, 101, 115, 67, 97, 112, 97, 98, 108, 101>>
      [] name.variant = "CssCanvas" -> <<67, 115, 115, 67, 97, 110, 118, 97, 115>>
      [] name.variant = "DeviceOrientation" -> <<68, 101, 118, 105, 99, 101, 79, 114, 105, 101, 110, 116, 97, 116, 105, 111, 110>>
      [] name.variant = "Fetch" -> <<70, 101, 116, 99, 104>>
      [] name.variant = "Fullscreen" -> <<70, 117, 108, 108, 115, 99, 114, 101, 101, 110>>
      [] name.variant = "GeoLocation" -> <<71, 101, 111, 76, 111, 99, 97, 116, 105, 111, 110>>
      [] name.variant = "IndexedDB" -> <<73, 110, 100, 101, 120, 101, 100, 68, 66>>
      [] name.variant = "InVRMode" -> <<73, 110, 86, 82, 77, 111, 100, 101>>
      [] name.variant = "Javascript" -> <<74, 97, 118, 97, 115, 99, 114, 105, 112, 116>>
      [] name.variant = "Viewport" -> <<86, 105, 101, 119, 112, 111, 114, 116>>
      [] name.variant = "PlatformName" -> <<80, 108, 97, 116, 102, 111, 114, 109, 78, 97, 109, 101>>
      [] name.variant = "PlatformVendor" -> <<80, 108, 97, 116, 102, 111, 114, 109, 86, 101, 110, 100, 111, 114>>
      [] name.variant = "PlatformVersion" -> <<80, 108, 97, 116, 102, 111, 114, 109, 86, 101, 114, 115, 105, 111, 110>>
      [] name.variant = "PlatformReleaseYear" -> <<80, 108, 97, 116, 102, 111, 114, 109, 82, 101, 108, 101, 97, 115, 101, 89, 101, 97, 114>>
      [] name.variant = "PlatformRank" -> <<80, 108, 97, 116, 102, 111, 114, 109, 82, 97, 110, 107>>
      [] name.variant = "HardwareName" -> <<72, 97, 114, 100, 119, 97, 114, 101, 78, 97, 109, 101>>
      [] name.variant = "HardwareVendor" -> <<72, 97, 114, 100, 119, 97, 114, 101, 86, 101, 110, 100, 111, 114>>
      [] name.variant = "HardwareFamily" -> <<72, 97, 114, 100, 119, 97, 114, 101, 70, 97, 109, 105, 108, 121>>
      [] name.variant = "HardwareModel" -> <<72, 97, 114, 100, 119, 97, 114, 101, 77, 111, 100, 101, 108>>
      [] name.variant = "HardwareModelVariants" -> <<72, 97, 114, 100, 119, 97, 114, 101, 77, 111, 100, 101, 108, 86, 97, 114, 105, 97, 110, 116, 115>>
      [] name.variant = "HardwareCarrier" -> <<72, 97, 114, 100, 119, 97, 114, 101, 67, 97, 114, 114, 105, 101, 114>>
      [] name.variant = "HardwareRank" -> <<72, 97, 114, 100, 119, 97, 114, 101, 82, 97, 110, 107>>
      [] name.variant = "OEM" -> <<79, 69, 77>>
      [] name.variant = "ReleaseYear" -> <<82, 101, 108, 101, 97, 115, 101, 89, 101, 97, 114>>
      [] name.variant = "BitsPerPixel" -> <<66, 105, 116, 115, 80, 101, 114, 80, 105, 120, 101, 108>>
      [] name.variant = "PixelRatio" -> <<80, 105, 120, 101, 108, 82, 97, 116, 105, 111>>
      [] name.variant = "ScreenInchesDiagonal" -> <<83, 99, 114, 101, 101, 110, 73, 110, 99, 104, 101, 115, 68, 105, 97, 103, 111, 110, 97, 108>>
      [] name.variant = "ScreenPixelsHeight" -> <<83, 99, 114, 101, 101, 110, 80, 105, 120, 101, 108, 115, 72, 101, 105, 103, 104, 116>>
      [] name.variant = "ScreenPixelsPhysicalHeight" -> <<83, 99, 114, 101, 101, 110, 80, 105, 120, 101, 108, 115, 80, 104, 121, 115, 105, 99, 97, 108, 72, 101, 105, 103, 104, 116>>
      [] name.variant = "ScreenPixelsPhysicalWidth" -> <<83, 99, 114, 101, 101, 110, 80, 105, 120, 101, 108, 115, 80, 104, 121, 115, 105, 99, 97, 108, 87, 105, 100, 116, 104>>
      [] name.variant = "ScreenPixelsWidth" -> <<83, 99, 114, 101, 101, 110, 80, 105, 120, 101, 108, 115, 87, 105, 100, 116, 104>>
      [] name.variant = "ScreenType" -> <<83, 99, 114, 101, 101, 110, 84, 121, 112, 101>>
      [] name.variant = "RegisteredCountry" -> <<82, 101, 103, 105, 115, 116, 101, 114, 101, 100, 67, 111, 117, 110, 116, 114, 121>>
      [] name.variant = "RegisteredName" -> <<82, 101, 103, 105, 115, 116, 101, 114, 101, 100, 78, 97, 109, 101>>
      [] name.variant = "RegisteredOwner" -> <<82, 101, 103, 105, 115, 116, 101, 114, 101, 100, 79, 119, 110, 101, 114>>
      [] name.variant = "Profiles" -> <<80, 114, 111, 102, 105, 108, 101, 115>>
      [] name.variant = "Popularity" -> <<80, 111, 112, 117, 108, 97, 114, 105, 116, 121>>
      [] name.variant = "PriceBand" -> <<80, 114, 105, 99, 101, 66, 97, 110, 100>>
      [] name.variant = "Difference" -> <<68, 105, 102, 102, 101, 114, 101, 110, 99, 101>>
      [] name.variant = "Drift" -> <<68, 114, 105, 102, 116>>
      [] name.variant = "UserAgents" -> <<85, 115, 101, 114, 65, 103, 101, 110, 116, 115>>

\* The enumerated variants of PropertyName, in the order of the enum.
PropertyNameVariants ==
    <<"DeviceId", "DeviceType", "CrawlerName", "HasTouchScreen",
      "IsScreenFoldable", "IsSmallScreen", "IsEmailBrowser",
      "IsEmulatingDesktop", "IsEmulatingDevice", "IsWebApp", "IsConsole",
      "IsEReader", "IsMediaHub", "IsMobile", "IsSmartWatch", "IsTablet",
      "IsTv", "IsCrawler", "IsArtificialIntelligence", "NativeBrand",
      "NativeDevice", "NativeModel", "NativeName", "NativePlatform",
      "BrowserFamily", "BrowserName", "BrowserVendor", "BrowserVersion",
      "BrowserReleaseYear", "BrowserSourceProject",
      "BrowserSourceProjectVersion", "BrowserRank", "Canvas",
      "CookiesCapable", "CssCanvas", "DeviceOrientation", "Fetch",
      "Fullscreen", "GeoLocation", "IndexedDB", "InVRMode", "Javascript",
      "Viewport", "PlatformName", "PlatformVendor", "PlatformVersion",
      "PlatformReleaseYear", "PlatformRank", "HardwareName",
      "HardwareVendor", "HardwareFamily", "HardwareModel",
      "HardwareModelVariants", "HardwareCarrier", "HardwareRank", "OEM",
      "ReleaseYear", "BitsPerPixel", "PixelRatio", "ScreenInchesDiagonal",
      "ScreenPixelsHeight", "ScreenPixelsPhysicalHeight",
      "ScreenPixelsPhysicalWidth", "ScreenPixelsWidth", "ScreenType",
      "RegisteredCountry", "RegisteredName", "RegisteredOwner", "Profiles",
      "Popularity", "PriceBand", "Difference", "Drift", "UserAgents">>

\* PropertyName::to_str
PropertyName_to_str(name) ==
    IF name.variant = "Custom" THEN name.token ELSE PropertyName_as_ref(name)

Comma == <<44>>

\* Itertools::join
RECURSIVE Join(_, _)
Join(strs, sep) ==
    IF Len(strs) = 0 THEN <<>>
    ELSE IF Len(strs) = 1 THEN strs[1]
    ELSE strs[1] \o sep \o Join(Tail(strs), sep)

None == <<>>
Some(x) == <<x>>

----------------------------------------------------------------------------
\* Manager::new.  `h` is the engine's table before the call, `eng` what the
\* engine answers to the load call.  The result carries the value returned,
\* the table after the call and the engine calls made.

New_Return(r, h, log, raise) ==
    [ret |-> r, heap |-> h, calls |-> log, raised |-> raise]

Manager_new(h, config, eng) ==
    LET path == config.data_file_path
        verified == verify_data_file_path(path)
    IN
    IF ~verified.ok THEN New_Return(Err(verified.err), h, <<>>, SUCCESS)
    ELSE IF ~path.canonicalize_ok
    THEN New_Return(Err(IOError("Failed to canonicalize data file path")), h, <<>>, SUCCESS)
    ELSE IF ~path.utf8
    THEN New_Return(Err(IOError("Failed to convert data file path to string")), h, <<>>, SUCCESS)
    ELSE
    LET path_cstring == build_cstring("FilePath", path.canonical)
        is_some == config.property_names # None
        property_names ==
            Join([i \in 1..Len(config.property_names[1]) |->
                      PropertyName_to_str(config.property_names[1][i])], Comma)
        properties_cstring == build_cstring("PropertyName", property_names)
    IN
    IF ~path_cstring.ok THEN New_Return(Err(path_cstring.err), h, <<>>, SUCCESS)
    ELSE IF is_some /\ ~properties_cstring.ok
    THEN New_Return(Err(properties_cstring.err), h, <<>>, SUCCESS)
    ELSE
    LET \* `p` is a local of the if block: the block has ended when the
        \* engine is called, and `properties` still points at it.
        properties ==
            IF is_some
            THEN [null |-> FALSE, in_scope |-> FALSE, string |-> properties_cstring.val]
            ELSE [null |-> TRUE, in_scope |-> TRUE, string |-> <<>>]
        exception == null_mut_exception
        \* Which of the objects behind the arguments are alive at the call:
        \* `manager`, `config`, `path_cstring` and `properties_cstring` are
        \* locals of the function body (lines 367, 375, 399, 401).
        in_scope == [manager |-> TRUE, config |-> TRUE,
                     properties |-> properties.in_scope,
                     properties_cstring |-> TRUE, path_cstring |-> TRUE]
        loaded == fiftyoneDegreesHashInitManagerFromFile(
                      h, properties, path_cstring.val, exception, eng)
        log == <<Call("fiftyoneDegreesHashInitManagerFromFile", Null,
                      properties.in_scope, <<properties, path_cstring.val, in_scope>>,
                      <<loaded.status, loaded.required>>)>>
        checked == verify_exception(loaded.exception, "InitManager")
    IN
    IF ~checked.ok THEN New_Return(Err(checked.err), loaded.heap, log, eng.raise)
    ELSE IF loaded.status # SUCCESS
    THEN New_Return(Err(InternalApiError("InitManager", loaded.status,
                                         status_to_error_message(loaded.status),
                                         "Status check failed")),
                    loaded.heap, log, eng.raise)
    ELSE New_Return(Ok(<<"Manager", loaded.instance>>), loaded.heap, log, eng.raise)

\* Drop for Manager
Manager_drop(h, instance) ==
    [heap |-> EngineFree(h, instance),
     calls |-> <<Call("fiftyoneDegreesResourceManagerFree", instance,
                      Live(h, instance), <<>>, <<>>)>>]

----------------------------------------------------------------------------
\* Engine: evidence and results.

fiftyoneDegreesEvidenceCreate(h, capacity, eng) ==
    IF eng.evidence = "null" THEN [ptr |-> Null, heap |-> h]
    ELSE [ptr |-> Len(h) + 1, heap |-> Append(h, Cell("evidence", Null, capacity))]

\* Registers the two pointers (not copies of the strings); null when the
\* collection is full or on an internal error.
fiftyoneDegreesEvidenceAddString(h, evidence_ptr, key_ptr, val_ptr, eng) ==
    IF eng.added = "null" \/ ~Live(h, evidence_ptr)
       \/ Len(h[evidence_ptr].entries) >= h[evidence_ptr].capacity
    THEN [entry |-> Null, heap |-> h]
    ELSE [entry |-> Len(h[evidence_ptr].entries) + 1,
          heap |-> [h EXCEPT ![evidence_ptr].entries =
                                 Append(@, [key |-> key_ptr, val |-> val_ptr])]]

fiftyoneDegreesResultsHashCreate(h, manager_ptr, eng) ==
    IF eng.results = "null" THEN [ptr |-> Null, heap |-> h]
    ELSE [ptr |-> Len(h) + 1, heap |-> Append(h, Cell("results", manager_ptr, 1))]

\* What a pointer to an encoded string reads: the string while its buffer is
\* allocated, anything once it has been released.
Deref(memory, addr, garbage) ==
    IF \E c \in memory : c.addr = addr
    THEN (CHOOSE c \in memory : c.addr = addr).bytes
    ELSE garbage

PointersValid(h, evidence_ptr, memory) ==
    /\ Live(h, evidence_ptr)
    /\ \A i \in 1..Len(h[evidence_ptr].entries) :
          /\ \E c \in memory : c.addr = h[evidence_ptr].entries[i].key
          /\ \E c \in memory : c.addr = h[evidence_ptr].entries[i].val

\* The value a result is matched on: the value of the first evidence pair.
Subject(pairs) == IF Len(pairs) = 0 THEN <<>> ELSE pairs[1][2]

\* Applies the evidence: the engine reads the strings through the registered
\* pointers and the result keeps what it matched on.  A failure is signalled
\* through `exception` only.
fiftyoneDegreesResultsHashFromEvidence(h, results_ptr, evidence_ptr, exception, memory, eng) ==
    LET entries == IF evidence_ptr \in 1..Len(h) THEN h[evidence_ptr].entries ELSE <<>>
        read == [i \in 1..Len(entries) |->
                    <<Deref(memory, entries[i].key, eng.garbage),
                      Deref(memory, entries[i].val, eng.garbage)>>]
    IN [exception |-> EngineSetException(exception, eng.raise),
        heap |-> IF eng.raise = SUCCESS
                 THEN [h EXCEPT ![results_ptr].matched = Subject(read)]
                 ELSE h]

----------------------------------------------------------------------------
\* Evidence (device_detection.rs).  The wrapper value is
\* [evidence_ptr, evidence_data]; an encoded string is [addr, bytes].

NoEvidence == [evidence_ptr |-> Null, evidence_data |-> <<>>]

\* The encoded strings allocated while `evidence` exists.
Memory(evidence) ==
    UNION { {evidence.evidence_data[i][1], evidence.evidence_data[i][2]} :
            i \in 1..Len(evidence.evidence_data) }

\* Evidence::new without its null check: the wrapper is built around whatever
\* the engine returned.
Evidence_new_unchecked(h, capacity, eng) ==
    LET created == fiftyoneDegreesEvidenceCreate(h, capacity, eng) IN
    [ret |-> Ok(<<>>),
     evidence |-> [evidence_ptr |-> created.ptr, evidence_data |-> <<>>],
     heap |-> created.heap,
     calls |-> <<Call("fiftyoneDegreesEvidenceCreate", Null, TRUE, <<capacity>>,
                      <<created.ptr>>)>>]

Evidence_new(h, capacity, eng) ==
    LET created == fiftyoneDegreesEvidenceCreate(h, capacity, eng)
        log == <<Call("fiftyoneDegreesEvidenceCreate", Null, TRUE, <<capacity>>,
                      <<created.ptr>>)>>
    IN
    IF created.ptr = Null
    THEN [ret |-> Err(UnsafeOperationError("Failed to create evidence object: got null")),
          evidence |-> NoEvidence, heap |-> created.heap, calls |-> log]
    ELSE [ret |-> Ok(<<>>),
          evidence |-> [evidence_ptr |-> created.ptr, evidence_data |-> <<>>],
          heap |-> created.heap, calls |-> log]

\* Evidence::add with the value taken as it is (CString::from_vec_unchecked):
\* only the key is encoded through build_cstring.
Evidence_add_unchecked_value(h, evidence, i, key, val, eng) ==
    LET key_cstring == build_cstring("EvidenceKey", key) IN
    IF ~key_cstring.ok
    THEN [ret |-> Err(key_cstring.err), evidence |-> evidence, heap |-> h, calls |-> <<>>]
    ELSE
    LET k == [addr |-> 2 * i - 1, bytes |-> key_cstring.val]
        v == [addr |-> 2 * i, bytes |-> val]
        added == fiftyoneDegreesEvidenceAddString(h, evidence.evidence_ptr,
                                                  k.addr, v.addr, eng)
        log == <<Call("fiftyoneDegreesEvidenceAddString", evidence.evidence_ptr,
                      PointersValid(h, evidence.evidence_ptr, Memory(evidence)),
                      <<k.bytes, v.bytes>>, <<added.entry>>)>>
    IN
    IF added.entry = Null
    THEN [ret |-> Err(UnsafeOperationError(<<"Failed add evidence key: got null", key>>)),
          evidence |-> evidence, heap |-> added.heap, calls |-> log]
    ELSE [ret |-> Ok(<<>>),
          evidence |-> [evidence EXCEPT !.evidence_data = Append(@, <<k, v>>)],
          heap |-> added.heap, calls |-> log]

\* Evidence::add that lets the two encoded strings go at its end instead of
\* pushing them onto evidence_data.
Evidence_add_not_retained(h, evidence, i, key, val, eng) ==
    LET key_cstring == build_cstring("EvidenceKey", key)
        val_cstring == build_cstring("EvidenceValue", val)
    IN
    IF ~key_cstring.ok
    THEN [ret |-> Err(key_cstring.err), evidence |-> evidence, heap |-> h, calls |-> <<>>]
    ELSE IF ~val_cstring.ok
    THEN [ret |-> Err(val_cstring.err), evidence |-> evidence, heap |-> h, calls |-> <<>>]
    ELSE
    LET added == fiftyoneDegreesEvidenceAddString(h, evidence.evidence_ptr,
                                                  2 * i - 1, 2 * i, eng)
        log == <<Call("fiftyoneDegreesEvidenceAddString", evidence.evidence_ptr,
                      TRUE, <<key_cstring.val, val_cstring.val>>, <<added.entry>>)>>
    IN
    IF added.entry = Null
    THEN [ret |-> Err(UnsafeOperationError(<<"Failed add evidence key: got null", key>>)),
          evidence |-> evidence, heap |-> added.heap, calls |-> log]
    ELSE [ret |-> Ok(<<>>), evidence |-> evidence, heap |-> added.heap, calls |-> log]

\* Evidence::add, for the pair at position `i` of the slice (the two encoded
\* strings get the addresses 2i-1 and 2i).
Evidence_add(h, evidence, i, key, val, eng) ==
    LET key_cstring == build_cstring("EvidenceKey", key)
        val_cstring == build_cstring("EvidenceValue", val)
    IN
    IF ~key_cstring.ok
    THEN [ret |-> Err(key_cstring.err), evidence |-> evidence, heap |-> h, calls |-> <<>>]
    ELSE IF ~val_cstring.ok
    THEN [ret |-> Err(val_cstring.err), evidence |-> evidence, heap |-> h, calls |-> <<>>]
    ELSE
    LET k == [addr |-> 2 * i - 1, bytes |-> key_cstring.val]
        v == [addr |-> 2 * i, bytes |-> val_cstring.val]
        added == fiftyoneDegreesEvidenceAddString(h, evidence.evidence_ptr,
                                                  k.addr, v.addr, eng)
        log == <<Call("fiftyoneDegreesEvidenceAddString", evidence.evidence_ptr,
                      PointersValid(h, evidence.evidence_ptr, Memory(evidence)),
                      <<k.bytes, v.bytes>>, <<added.entry>>)>>
    IN
    IF added.entry = Null
    THEN [ret |-> Err(UnsafeOperationError(<<"Failed add evidence key: got null", key>>)),
          evidence |-> evidence, heap |-> added.heap, calls |-> log]
    ELSE [ret |-> Ok(<<>>),
          evidence |-> [evidence EXCEPT !.evidence_data = Append(@, <<k, v>>)],
          heap |-> added.heap, calls |-> log]

\* An Evidence with no Drop implementation: only the fields are dropped.
Evidence_drop_fields_only(h, evidence) == [heap |-> h, calls |-> <<>>]

\* An Evidence that releases its encoded strings before its native handle
\* (evidence_data.clear() ahead of the free call).
Evidence_drop_buffers_first(h, evidence) ==
    [heap |-> EngineFree(h, evidence.evidence_ptr),
     calls |-> <<Call("fiftyoneDegreesEvidenceFree", evidence.evidence_ptr,
                      PointersValid(h, evidence.evidence_ptr, {}), <<>>, <<>>)>>]

\* Drop for Evidence: the native handle is freed, then the fields (the
\* encoded strings) are dropped.
Evidence_drop(h, evidence) ==
    [heap |-> EngineFree(h, evidence.evidence_ptr),
     calls |-> <<Call("fiftyoneDegreesEvidenceFree", evidence.evidence_ptr,
                      PointersValid(h, evidence.evidence_ptr, Memory(evidence)),
                      <<>>, <<>>)>>]

----------------------------------------------------------------------------
\* ResultData (device_detection.rs).

\* ResultData::new that gives up on the manager when the engine refuses a
\* result handle: it releases the manager resource before returning the error.
ResultData_new_teardown(h, manager_ptr, evidence_ptr, memory, eng) ==
    LET created == fiftyoneDegreesResultsHashCreate(h, manager_ptr, eng)
        results_ptr == created.ptr
        log1 == <<Call("fiftyoneDegreesResultsHashCreate", manager_ptr,
                       Live(h, manager_ptr), <<1, 0>>, <<results_ptr>>)>>
        applied == fiftyoneDegreesResultsHashFromEvidence(
                       created.heap, results_ptr, evidence_ptr, null_mut_exception,
                       memory, eng)
    IN
    IF results_ptr = Null
    THEN [ret |-> Err(UnsafeOperationError("Failed to create result object: got null")),
          heap |-> EngineFree(created.heap, manager_ptr),
          calls |-> Append(log1, Call("fiftyoneDegreesResourceManagerFree", manager_ptr,
                                      Live(h, manager_ptr), <<>>, <<>>)),
          raised |-> SUCCESS]
    ELSE [ret |-> Ok(<<"ResultData", results_ptr>>), heap |-> applied.heap,
          calls |-> Append(log1, Call("fiftyoneDegreesResultsHashFromEvidence",
                                      results_ptr,
                                      PointersValid(created.heap, evidence_ptr, memory),
                                      <<evidence_ptr>>, <<>>)),
          raised |-> eng.raise]

ResultData_new(h, manager_ptr, evidence_ptr, memory, eng) ==
    LET created == fiftyoneDegreesResultsHashCreate(h, manager_ptr, eng)
        results_ptr == created.ptr
        log1 == <<Call("fiftyoneDegreesResultsHashCreate", manager_ptr,
                       Live(h, manager_ptr), <<1, 0>>, <<results_ptr>>)>>
    IN
    IF results_ptr = Null
    THEN [ret |-> Err(UnsafeOperationError("Failed to create result object: got null")),
          heap |-> created.heap, calls |-> log1, raised |-> SUCCESS]
    ELSE
    LET exception == null_mut_exception
        applied == fiftyoneDegreesResultsHashFromEvidence(
                       created.heap, results_ptr, evidence_ptr, exception, memory, eng)
        log2 == Append(log1, Call("fiftyoneDegreesResultsHashFromEvidence", results_ptr,
                                  PointersValid(created.heap, evidence_ptr, memory),
                                  <<evidence_ptr>>, <<>>))
        checked == verify_exception(applied.exception, "ApplyEvidence")
    IN
    IF ~checked.ok
    THEN [ret |-> Err(checked.err), heap |-> applied.heap, calls |-> log2,
          raised |-> eng.raise]
    ELSE [ret |-> Ok(<<"ResultData", results_ptr>>), heap |-> applied.heap,
          calls |-> log2, raised |-> eng.raise]

\* Drop for ResultData
ResultData_drop(h, results_ptr) ==
    [heap |-> EngineFree(h, results_ptr),
     calls |-> <<Call("fiftyoneDegreesResultsHashFree", results_ptr,
                      Live(h, results_ptr) /\ Live(h, h[results_ptr].dataset),
                      <<>>, <<>>)>>]

----------------------------------------------------------------------------
\* Engine: property reads.  The dataset is a fixed table from the user agent
\* the result was matched on and the property token to the rendered value.

UaA == <<65>>
UaB == <<66>>

\* "True", "Unknown", "N/A"
StrTrue == <<84, 114, 117, 101>>
StrUnknown == <<85, 110, 107, 110, 111, 119, 110>>
StrNA == <<78, 47, 65>>

Fill(n) == [i \in 1..n |-> 120]

\* "Cé" in UTF-8 (C, C3 A9), and a name in Latin-1 that begins with "Cé"
\* (C, E9) and is 63 bytes long, the longest value the 64-byte buffer takes.
VendorUtf8 == <<67, 195, 169>>
VendorLatin1 == <<67, 233>> \o Fill(61)

\* A value that fits the 128-byte buffer and not the 64-byte one, a value
\* that fits neither, and a value as long as the 64-byte buffer.
LongValueLen == 65
VeryLongValueLen == 129
BoundaryValueLen == 64

\* A property the dataset does not have renders as nothing.
DatasetValue(subject, token) ==
    CASE token = StrIsMobile /\ subject = UaA -> StrTrue
      [] token = StrIsMobile /\ subject = UaB -> StrUnknown
      [] token = StrBrowserName /\ subject = UaA -> Fill(LongValueLen)
      [] token = StrBrowserName /\ subject = UaB -> StrNA
      [] token = StrBrowserVendor /\ subject = UaA -> VendorUtf8
      [] token = StrBrowserVendor /\ subject = UaB -> VendorLatin1
      [] token = StrHardwareName /\ subject = UaA -> Fill(VeryLongValueLen)
      [] token = StrHardwareName /\ subject = UaB -> Fill(BoundaryValueLen)
      [] OTHER -> <<>>

\* Renders the property into `buffer_len` bytes of a zeroed buffer: the value
\* and its terminator when they fit; the length the value needs is returned.
\* A value that does not fit is either not written at all or cut to the
\* buffer and terminated.
\* A result whose own or whose manager's resource has been released is read
\* through a dangling pointer: the engine may then render anything.
fiftyoneDegreesResultsHashGetValuesString(h, results_ptr, token, buffer_len, exception, eng) ==
    LET valid == Live(h, results_ptr) /\ Live(h, h[results_ptr].dataset)
        value == IF ~valid THEN eng.garbage
                 ELSE DatasetValue(h[results_ptr].matched, token)
        zeroed == [i \in 1..buffer_len |-> NUL]
    IN
    IF eng.raise # SUCCESS
    THEN [required_len |-> 0, buf |-> zeroed,
          exception |-> EngineSetException(exception, eng.raise)]
    ELSE [required_len |-> Len(value),
          buf |-> IF Len(value) < buffer_len
                  THEN [i \in 1..buffer_len |->
                           IF i <= Len(value) THEN value[i] ELSE NUL]
                  ELSE IF eng.partial
                  THEN [i \in 1..buffer_len |->
                           IF i < buffer_len THEN value[i] ELSE NUL]
                  ELSE zeroed,
          exception |-> exception]

----------------------------------------------------------------------------
\* ResultData reads.

BufLenAsString == 64
BufLenValue == 128

\* CStr::from_ptr: the bytes before the first NUL.  With no NUL inside the
\* buffer the scan runs on into the memory behind it (`beyond`).
CStr_from_ptr(buf, beyond) ==
    IF HasNul(buf)
    THEN SubSeq(buf, 1, (CHOOSE i \in 1..Len(buf) :
                            buf[i] = NUL /\ \A j \in 1..(i - 1) : buf[j] # NUL) - 1)
    ELSE buf \o beyond

\* CStr::to_string_lossy.  A String is the sequence of its UTF-8 bytes: a
\* well-formed sequence is kept, and every maximal ill-formed part becomes
\* U+FFFD (the bytes EF BF BD).
ReplacementChar == <<239, 191, 189>>

\* The length of the sequence a lead byte announces (1 for a byte that can
\* lead nothing) and the range its second byte must lie in.
Utf8SequenceLen(lead) ==
    CASE lead \in 194..223 -> 2
      [] lead \in 224..239 -> 3
      [] lead \in 240..244 -> 4
      [] OTHER -> 1
Utf8SecondByte(lead) ==
    CASE lead = 224 -> 160..191
      [] lead = 237 -> 128..159
      [] lead = 240 -> 144..191
      [] lead = 244 -> 128..143
      [] OTHER -> 128..191

\* How many bytes at the head of `bytes` belong to one sequence, complete or
\* broken off.
Utf8Prefix(bytes) ==
    LET lead == bytes[1]
        n == Utf8SequenceLen(lead)
        second == Len(bytes) >= 2 /\ bytes[2] \in Utf8SecondByte(lead)
        third == Len(bytes) >= 3 /\ bytes[3] \in 128..191
        fourth == Len(bytes) >= 4 /\ bytes[4] \in 128..191
    IN
    IF n >= 2 /\ second
    THEN (IF n >= 3 /\ third THEN (IF n >= 4 /\ fourth THEN 4 ELSE 3) ELSE 2)
    ELSE 1

RECURSIVE Utf8Lossy(_)
Utf8Lossy(bytes) ==
    IF bytes = <<>> THEN <<>>
    ELSE
    LET lead == bytes[1]
        n == Utf8SequenceLen(lead)
        k == Utf8Prefix(bytes)
        rest == SubSeq(bytes, k + 1, Len(bytes))
    IN
    IF lead < 128 THEN <<lead>> \o Utf8Lossy(rest)
    ELSE IF n >= 2 /\ k = n THEN SubSeq(bytes, 1, n) \o Utf8Lossy(rest)
    ELSE ReplacementChar \o Utf8Lossy(rest)

to_string_lossy(bytes) ==
    IF \A i \in 1..Len(bytes) : bytes[i] < 128 THEN bytes ELSE Utf8Lossy(bytes)

\* Well-formed UTF-8.
RECURSIVE Utf8Valid(_)
Utf8Valid(bytes) ==
    \/ \A i \in 1..Len(bytes) : bytes[i] < 128
    \/ /\ bytes[1] < 128
       /\ Utf8Valid(Tail(bytes))
    \/ /\ Utf8SequenceLen(bytes[1]) >= 2
       /\ Utf8Prefix(bytes) = Utf8SequenceLen(bytes[1])
       /\ Utf8Valid(SubSeq(bytes, Utf8SequenceLen(bytes[1]) + 1, Len(bytes)))

\* The Cow<str> that to_string_lossy returns: well-formed bytes are borrowed
\* from the memory the CStr points to, anything else is decoded into a new
\* String that the Cow owns.
Cow_Borrowed(bytes) == [variant |-> "Borrowed", bytes |-> bytes]
Cow_Owned(bytes) == [variant |-> "Owned", bytes |-> bytes]
to_string_lossy_cow(bytes) ==
    IF Utf8Valid(bytes) THEN Cow_Borrowed(bytes) ELSE Cow_Owned(to_string_lossy(bytes))

\* What freed memory holds once the allocator has used it again.
Reused(bytes) == [i \in 1..Len(bytes) |-> 255]

\* The end of get_value's scope: `buf` is dropped while the result is handed
\* to the caller.  CStr::from_ptr gives the borrow a lifetime of the caller's
\* choosing, so a borrowed Cow still points into `buf`; what it reads there
\* afterwards are the decoded bytes only as long as the memory is not reused.
\* Its length travels with the reference.
Borrows(r) == r.ok /\ r.val # None /\ r.val[1].variant = "Borrowed"
after_drop_of_buf(r, reused) ==
    IF Borrows(r) /\ reused
    THEN [r EXCEPT !.val = Some(Cow_Borrowed(Reused(r.val[1].bytes)))]
    ELSE r

Read_Return(r, log, raise) == [ret |-> r, calls |-> log, raised |-> raise]

\* get_value_as_string that takes a required length of 0 for "nothing was
\* written" and reports it as an error.
ResultData_get_value_as_string_no_data_error(h, results_ptr, property_name, eng) ==
    LET property_name_cstring == build_cstring("PropertyName", PropertyName_to_str(property_name))
        buf_len == BufLenAsString
    IN
    IF ~property_name_cstring.ok THEN Read_Return(Err(property_name_cstring.err), <<>>, SUCCESS)
    ELSE
    LET got == fiftyoneDegreesResultsHashGetValuesString(
                   h, results_ptr, property_name_cstring.val, buf_len,
                   null_mut_exception, eng)
        log == <<Call("fiftyoneDegreesResultsHashGetValuesString", results_ptr,
                      Live(h, results_ptr) /\ Live(h, h[results_ptr].dataset),
                      <<property_name_cstring.val, buf_len>>, <<got.required_len, got.buf>>)>>
        val_str == to_string_lossy(CStr_from_ptr(got.buf, eng.garbage))
    IN
    IF got.required_len > buf_len
    THEN Read_Return(Err(UnsafeOperationError(
             <<"Buffer too small for property", got.required_len, buf_len>>)), log, eng.raise)
    ELSE IF got.required_len = 0
    THEN Read_Return(Err(UnsafeOperationError("No data written for property")), log, eng.raise)
    ELSE IF val_str # <<>> /\ val_str # StrUnknown /\ val_str # StrNA
    THEN Read_Return(Ok(Some(val_str)), log, eng.raise)
    ELSE Read_Return(Ok(None), log, eng.raise)

ResultData_get_value_as_string(h, results_ptr, property_name, eng) ==
    LET property_name_cstring == build_cstring("PropertyName", PropertyName_to_str(property_name))
        buf_len == BufLenAsString
        sep == build_cstring("HashResultSeparator", <<44, 32>>)
    IN
    IF ~property_name_cstring.ok THEN Read_Return(Err(property_name_cstring.err), <<>>, SUCCESS)
    ELSE IF ~sep.ok THEN Read_Return(Err(sep.err), <<>>, SUCCESS)
    ELSE
    LET exception == null_mut_exception
        got == fiftyoneDegreesResultsHashGetValuesString(
                   h, results_ptr, property_name_cstring.val, buf_len, exception, eng)
        log == <<Call("fiftyoneDegreesResultsHashGetValuesString", results_ptr,
                      Live(h, results_ptr) /\ Live(h, h[results_ptr].dataset),
                      <<property_name_cstring.val, buf_len>>, <<got.required_len, got.buf>>)>>
        checked == verify_exception(got.exception, "ReadProperty")
        val_str == to_string_lossy(CStr_from_ptr(got.buf, eng.garbage))
    IN
    IF ~checked.ok THEN Read_Return(Err(checked.err), log, eng.raise)
    ELSE IF got.required_len > buf_len
    THEN Read_Return(Err(UnsafeOperationError(
             <<"Buffer too small for property", got.required_len, buf_len>>)), log, eng.raise)
    ELSE IF buf_len = 0
    THEN Read_Return(Err(UnsafeOperationError("No data written for property")), log, eng.raise)
    ELSE IF val_str # <<>> /\ val_str # StrUnknown /\ val_str # StrNA
    THEN Read_Return(Ok(Some(val_str)), log, eng.raise)
    ELSE Read_Return(Ok(None), log, eng.raise)

\* get_value without the comparison of required_len with buf.len(): whatever
\* the buffer holds is decoded.
ResultData_get_value_unchecked_len(h, results_ptr, property_name, eng) ==
    LET property_name_cstring == build_cstring("PropertyName", property_name)
        buf_len == BufLenValue
    IN
    IF ~property_name_cstring.ok THEN Read_Return(Err(property_name_cstring.err), <<>>, SUCCESS)
    ELSE
    LET got == fiftyoneDegreesResultsHashGetValuesString(
                   h, results_ptr, property_name_cstring.val, buf_len,
                   null_mut_exception, eng)
        log == <<Call("fiftyoneDegreesResultsHashGetValuesString", results_ptr,
                      Live(h, results_ptr) /\ Live(h, h[results_ptr].dataset),
                      <<property_name_cstring.val, buf_len>>, <<got.required_len, got.buf>>)>>
        val_str == to_string_lossy_cow(CStr_from_ptr(got.buf, eng.garbage))
    IN
    IF val_str.bytes # <<>>
    THEN Read_Return(Ok(Some(val_str)), log, eng.raise)
    ELSE Read_Return(Ok(None), log, eng.raise)

\* get_value that decodes the whole buffer instead of the C string at its
\* start: the terminator and the zero bytes behind it end up in the value.
ResultData_get_value_whole_buffer(h, results_ptr, property_name, eng) ==
    LET property_name_cstring == build_cstring("PropertyName", property_name)
        buf_len == BufLenValue
    IN
    IF ~property_name_cstring.ok THEN Read_Return(Err(property_name_cstring.err), <<>>, SUCCESS)
    ELSE
    LET got == fiftyoneDegreesResultsHashGetValuesString(
                   h, results_ptr, property_name_cstring.val, buf_len,
                   null_mut_exception, eng)
        log == <<Call("fiftyoneDegreesResultsHashGetValuesString", results_ptr,
                      Live(h, results_ptr) /\ Live(h, h[results_ptr].dataset),
                      <<property_name_cstring.val, buf_len>>, <<got.required_len, got.buf>>)>>
        val_str == to_string_lossy_cow(got.buf)
    IN
    IF got.required_len > buf_len
    THEN Read_Return(Err(UnsafeOperationError(
             <<"Buffer too small for property", got.required_len, buf_len>>)), log, eng.raise)
    ELSE IF val_str.bytes # <<>>
    THEN Read_Return(Ok(Some(val_str)), log, eng.raise)
    ELSE Read_Return(Ok(None), log, eng.raise)

ResultData_get_value(h, results_ptr, property_name, eng) ==
    LET property_name_cstring == build_cstring("PropertyName", property_name)
        buf_len == BufLenValue
        sep == build_cstring("HashResultSeparator", <<44, 32>>)
    IN
    IF ~property_name_cstring.ok THEN Read_Return(Err(property_name_cstring.err), <<>>, SUCCESS)
    ELSE IF ~sep.ok THEN Read_Return(Err(sep.err), <<>>, SUCCESS)
    ELSE
    LET exception == null_mut_exception
        got == fiftyoneDegreesResultsHashGetValuesString(
                   h, results_ptr, property_name_cstring.val, buf_len, exception, eng)
        log == <<Call("fiftyoneDegreesResultsHashGetValuesString", results_ptr,
                      Live(h, results_ptr) /\ Live(h, h[results_ptr].dataset),
                      <<property_name_cstring.val, buf_len>>, <<got.required_len, got.buf>>)>>
        checked == verify_exception(got.exception, "ReadProperty")
        val_str == to_string_lossy_cow(CStr_from_ptr(got.buf, eng.garbage))
    IN
    IF ~checked.ok THEN Read_Return(Err(checked.err), log, eng.raise)
    ELSE IF got.required_len > buf_len
    THEN Read_Return(Err(UnsafeOperationError(
             <<"Buffer too small for property", got.required_len, buf_len>>)), log, eng.raise)
    ELSE IF buf_len = 0
    THEN Read_Return(Err(UnsafeOperationError("No data written for property")), log, eng.raise)
    ELSE IF val_str.bytes # <<>>
    THEN Read_Return(Ok(Some(val_str)), log, eng.raise)
    ELSE Read_Return(Ok(None), log, eng.raise)

----------------------------------------------------------------------------
\* Manager::detect, in the steps between which its locals are live.

NoFrame == [self |-> Null, evidence_data |-> <<>>, evidence |-> NoEvidence, i |-> 0]

\* The evidence slice as the strings detect hands to Evidence::add.
Encoded(evidence_data) ==
    [i \in 1..Len(evidence_data) |->
        <<EvidenceName_as_str(evidence_data[i].name), evidence_data[i].val>>]

\* detect without its length check.
Manager_detect_enter_unchecked(h, evidence_data, eng) ==
    Evidence_new(h, Len(evidence_data), eng)

\* detect with the evidence capacity written as a literal, like the capacity
\* hint of ResultData::new.
Manager_detect_enter_fixed_capacity(h, evidence_data, eng) ==
    IF Len(evidence_data) = 0
    THEN [ret |-> Err(AssertionError("CreateEvidence",
                                     "Evidence data must contain at least one item")),
          evidence |-> NoEvidence, heap |-> h, calls |-> <<>>]
    ELSE Evidence_new(h, 1, eng)

\* The length check and Evidence::new (lines 456-463).
Manager_detect_enter(h, evidence_data, eng) ==
    IF Len(evidence_data) = 0
    THEN [ret |-> Err(AssertionError("CreateEvidence",
                                     "Evidence data must contain at least one item")),
          evidence |-> NoEvidence, heap |-> h, calls |-> <<>>]
    ELSE Evidence_new(h, Len(evidence_data), eng)

\* What a public operation returned: the operation, its arguments, whether it
\* has returned yet, and the Result.
Returned(op, input, r) ==
    [op |-> op, input |-> input, done |-> TRUE, ok |-> r.ok, val |-> r.val, err |-> r.err]
Pending(op, input) ==
    [op |-> op, input |-> input, done |-> FALSE, ok |-> FALSE, val |-> <<>>, err |-> <<>>]

----------------------------------------------------------------------------
\* Inputs and engine answers.

UserAgent == [variant |-> "UserAgent"]
SecChUa == [variant |-> "SecChUa"]
SecChPlatform == [variant |-> "SecChPlatform"]
CustomEvidence(token) == [variant |-> "Custom", token |-> token]
IsMobile == [variant |-> "IsMobile"]
BrowserName == [variant |-> "BrowserName"]
BrowserVendor == [variant |-> "BrowserVendor"]
HardwareName == [variant |-> "HardwareName"]
CustomProperty(token) == [variant |-> "Custom", token |-> token]

\* A key and a value with an interior NUL byte.
KeyWithNul == <<120, NUL, 121>>
ValWithNul == <<65, NUL>>

PairChoices ==
    { [name |-> UserAgent, val |-> UaA],
      [name |-> SecChUa, val |-> UaB],
      [name |-> CustomEvidence(KeyWithNul), val |-> UaA],
      [name |-> UserAgent, val |-> ValWithNul] }

GoodPairs == { p \in PairChoices : ~HasNul(EvidenceName_as_str(p.name)) /\ ~HasNul(p.val) }

\* The slices given to detect: up to MaxPairs pairs, either one good pair
\* repeated or the first good pair with one pair that has a NUL byte, at any
\* position.
EvidenceSlices ==
    UNION { { e \in [1..n -> PairChoices] :
                 \/ \E g \in GoodPairs : \A i \in 1..n : e[i] = g
                 \/ \E b \in 1..n :
                       /\ e[b] \notin GoodPairs
                       /\ \A i \in 1..n \ {b} : e[i] = [name |-> UserAgent, val |-> UaA] }
            : n \in 0..MaxPairs }

PropertyChoices ==
    { IsMobile, BrowserName, BrowserVendor, HardwareName, CustomProperty(StrUnknown),
      CustomProperty(KeyWithNul) }

PathMissing ==
    [exists |-> FALSE, is_file |-> FALSE, canonicalize_ok |-> FALSE, utf8 |-> TRUE,
     canonical |-> <<>>]
PathDirectory ==
    [exists |-> TRUE, is_file |-> FALSE, canonicalize_ok |-> TRUE, utf8 |-> TRUE,
     canonical |-> <<47, 100>>]
PathFile ==
    [exists |-> TRUE, is_file |-> TRUE, canonicalize_ok |-> TRUE, utf8 |-> TRUE,
     canonical |-> <<47, 102>>]
PathUnreadable == [PathFile EXCEPT !.canonicalize_ok = FALSE]
PathNotUtf8 == [PathFile EXCEPT !.utf8 = FALSE]

Configs ==
    [data_file_path : {PathMissing, PathDirectory, PathUnreadable, PathNotUtf8},
     property_names : {None}]
    \cup
    [data_file_path : {PathFile},
     property_names : {None, Some(<<>>), Some(<<IsMobile, BrowserName>>),
                       Some(<<IsMobile, CustomProperty(StrUnknown)>>),
                       Some(<<CustomProperty(KeyWithNul)>>)}]

Garbage == {<<>>, <<255>>}

\* The engine's answers to the load call: each status without an exception,
\* an exception raised next to a status of success, and a successful load
\* made after the stack slot of the if block's `p` was reused.
EngLoad ==
    { eng \in [status : {SUCCESS, "CORRUPT_DATA", "STATUS_9999"},
               raise : {SUCCESS, "INSUFFICIENT_MEMORY"},
               clobbered : BOOLEAN] :
         /\ eng.raise # SUCCESS => (eng.status = SUCCESS /\ ~eng.clobbered)
         /\ eng.clobbered => eng.status = SUCCESS }
EngEvidence == [evidence : {"null", "handle"}]
EngAdd == [added : {"null", "entry"}]
EngResults == [results : {"null", "handle"}, raise : {SUCCESS, "CORRUPT_DATA"},
               garbage : Garbage]
\* A read that raises writes nothing, and one that cuts the value reads no
\* stale memory.
EngRead ==
    { eng \in [raise : {SUCCESS, "COLLECTION_FAILURE"}, garbage : Garbage,
               partial : BOOLEAN] :
         /\ eng.raise # SUCCESS => (eng.garbage = <<>> /\ ~eng.partial)
         /\ eng.partial => eng.garbage = <<>> }

\* The engine's answers a read of `p` can tell apart: none when the name
\* cannot be encoded (the engine is never called), and a cut value only for
\* the properties whose values in the data set can exceed a buffer.
ReadAnswers(p) ==
    IF HasNul(PropertyName_to_str(p))
    THEN { [raise |-> SUCCESS, garbage |-> <<>>, partial |-> FALSE] }
    ELSE { eng \in EngRead : eng.partial => p \in {BrowserName, HardwareName} }

\* The configurations with which Manager::new gets as far as the load call;
\* with the others the engine's answer is never asked for.
ReachesEngine(config) ==
    /\ config.data_file_path = PathFile
    /\ config.property_names # Some(<<CustomProperty(KeyWithNul)>>)

\* The engine hands out at most MaxHandles allocations.
CanAllocate == Len(heap) < MaxHandles

----------------------------------------------------------------------------
\* The state machine.

Init ==
    /\ heap = <<>>
    /\ managers = {}
    /\ views = {}
    /\ origin = <<>>
    /\ pc = "idle"
    /\ frame = NoFrame
    /\ calls = <<>>
    /\ raised = SUCCESS
    /\ ret = Returned("none", <<>>, Ok(<<>>))

ManagerNew(config, eng) ==
    /\ pc = "idle"
    /\ eng.status = SUCCESS => CanAllocate
    /\ \/ ReachesEngine(config) /\ (config.property_names = None => ~eng.clobbered)
       \/ eng = [status |-> SUCCESS, raise |-> SUCCESS, clobbered |-> FALSE]
    /\ LET r == Manager_new(heap, config, eng) IN
       /\ heap' = r.heap
       /\ managers' = IF r.ret.ok THEN managers \cup {r.ret.val[2]} ELSE managers
       /\ calls' = r.calls
       /\ raised' = r.raised
       /\ ret' = Returned("new", config, r.ret)
    /\ UNCHANGED <<views, origin, pc, frame>>

\* A drop of the Manager that does not wait for the borrow detect holds, as
\* if detect took a raw pointer to the manager instead of &self.
DropManager_unborrowed(m) ==
    /\ m \in managers
    /\ LET r == Manager_drop(heap, m) IN
       /\ heap' = r.heap
       /\ calls' = calls \o r.calls
    /\ managers' = managers \ {m}
    /\ UNCHANGED <<views, origin, pc, frame, raised, ret>>

\* Dropping takes the Manager by value, which the borrow checker admits only
\* when no borrow of it is alive; detect(&self) holds one until it returns.
DropManager(m) ==
    /\ pc = "idle"
    /\ m \in managers
    /\ LET r == Manager_drop(heap, m) IN
       /\ heap' = r.heap
       /\ calls' = r.calls
    /\ managers' = managers \ {m}
    /\ raised' = SUCCESS
    /\ ret' = Returned("drop_manager", m, Ok(<<>>))
    /\ UNCHANGED <<views, origin, pc, frame>>

DropResultData(v) ==
    /\ pc = "idle"
    /\ v \in views
    /\ LET r == ResultData_drop(heap, v) IN
       /\ heap' = r.heap
       /\ calls' = r.calls
    /\ views' = views \ {v}
    /\ origin' = [w \in DOMAIN origin \ {v} |-> origin[w]]
    /\ raised' = SUCCESS
    /\ ret' = Returned("drop_result", v, Ok(<<>>))
    /\ UNCHANGED <<managers, pc, frame>>

GetValueAsString(v, property_name, eng) ==
    /\ pc = "idle"
    /\ v \in views
    /\ LET r == ResultData_get_value_as_string(heap, v, property_name, eng) IN
       /\ calls' = r.calls
       /\ raised' = r.raised
       /\ ret' = Returned("get_value_as_string", <<v, property_name>>, r.ret)
    /\ UNCHANGED <<heap, managers, views, origin, pc, frame>>

\* get_value up to its return expression, and the end of its scope: the
\* memory of `buf` is reused or not by the time the caller reads the value.
GetValue(v, property_name, eng) ==
    /\ pc = "idle"
    /\ v \in views
    /\ LET r == ResultData_get_value(heap, v, property_name, eng) IN
       /\ calls' = r.calls
       /\ raised' = r.raised
       /\ \E reused \in (IF Borrows(r.ret) THEN BOOLEAN ELSE {FALSE}) :
             ret' = Returned("get_value", <<v, property_name>>,
                             after_drop_of_buf(r.ret, reused))
    /\ UNCHANGED <<heap, managers, views, origin, pc, frame>>

Detect(m, evidence_data, eng) ==
    /\ pc = "idle"
    /\ m \in managers
    /\ eng.evidence = "handle" => CanAllocate
    /\ LET r == Manager_detect_enter(heap, evidence_data, eng) IN
       /\ heap' = r.heap
       /\ calls' = r.calls
       /\ IF r.ret.ok
          THEN /\ pc' = "add"
               /\ frame' = [self |-> m, evidence_data |-> evidence_data,
                            evidence |-> r.evidence, i |-> 1]
               /\ ret' = Pending("detect", <<m, evidence_data>>)
          ELSE /\ pc' = "idle"
               /\ frame' = NoFrame
               /\ ret' = Returned("detect", <<m, evidence_data>>, r.ret)
    /\ raised' = SUCCESS
    /\ UNCHANGED <<managers, views, origin>>

\* One turn of the loop over the slice (lines 465-467); on an error detect
\* returns and its local `evidence` is dropped.
DetectAdd(eng) ==
    /\ pc = "add"
    /\ frame.i <= Len(frame.evidence_data)
    /\ LET pair == frame.evidence_data[frame.i]
           r == Evidence_add(heap, frame.evidence, frame.i,
                             EvidenceName_as_str(pair.name), pair.val, eng)
           d == Evidence_drop(r.heap, r.evidence)
       IN
       IF r.ret.ok
       THEN /\ heap' = r.heap
            /\ calls' = calls \o r.calls
            /\ frame' = [frame EXCEPT !.evidence = r.evidence, !.i = @ + 1]
            /\ UNCHANGED <<pc, ret>>
       ELSE /\ heap' = d.heap
            /\ calls' = calls \o r.calls \o d.calls
            /\ frame' = NoFrame
            /\ pc' = "idle"
            /\ ret' = Returned("detect", ret.input, r.ret)
    /\ UNCHANGED <<managers, views, origin, raised>>

\* ResultData::new and the return (lines 469-472); `evidence` is dropped
\* whatever is returned.
DetectResult(eng) ==
    /\ pc = "add"
    /\ frame.i > Len(frame.evidence_data)
    /\ eng.results = "handle" => CanAllocate
    /\ LET manager_ptr == frame.self
           r == ResultData_new(heap, manager_ptr, frame.evidence.evidence_ptr,
                               Memory(frame.evidence), eng)
           d == Evidence_drop(r.heap, frame.evidence)
       IN
       /\ heap' = d.heap
       /\ calls' = calls \o r.calls \o d.calls
       /\ raised' = r.raised
       /\ ret' = Returned("detect", ret.input, r.ret)
       /\ views' = IF r.ret.ok THEN views \cup {r.ret.val[2]} ELSE views
       /\ origin' = IF r.ret.ok
                    THEN origin @@ (r.ret.val[2] :>
                             [manager |-> manager_ptr,
                              evidence |-> frame.evidence.evidence_ptr,
                              subject |-> Subject(Encoded(frame.evidence_data)),
                              raised |-> r.raised])
                    ELSE origin
    /\ pc' = "idle"
    /\ frame' = NoFrame
    /\ UNCHANGED managers

Next ==
    \/ \E config \in Configs, eng \in EngLoad : ManagerNew(config, eng)
    \/ \E m \in managers : DropManager(m)
    \/ \E v \in views : DropResultData(v)
    \/ \E v \in views, p \in PropertyChoices : \E eng \in ReadAnswers(p) :
          GetValueAsString(v, p, eng)
    \/ \E v \in views, p \in PropertyChoices : \E eng \in ReadAnswers(p) :
          GetValue(v, PropertyName_to_str(p), eng)
    \/ \E m \in managers, e \in EvidenceSlices, eng \in EngEvidence : Detect(m, e, eng)
    \/ \E eng \in EngAdd : DetectAdd(eng)
    \/ \E eng \in EngResults : DetectResult(eng)

Spec == Init /\ [][Next]_vars

----------------------------------------------------------------------------
\* The claims.

FreeFunctions ==
    { "fiftyoneDegreesResourceManagerFree", "fiftyoneDegreesEvidenceFree",
      "fiftyoneDegreesResultsHashFree" }

ResultFunctions ==
    { "fiftyoneDegreesResultsHashGetValuesString", "fiftyoneDegreesResultsHashFree" }

FreedKind(fn) ==
    CASE fn = "fiftyoneDegreesResourceManagerFree" -> "manager"
      [] fn = "fiftyoneDegreesEvidenceFree" -> "evidence"
      [] fn = "fiftyoneDegreesResultsHashFree" -> "results"

\* The wrapper values that own handle p: Manager values, ResultData values
\* and the Evidence local to the detect call in flight.
Owners(p) ==
    (IF p \in managers THEN 1 ELSE 0) + (IF p \in views THEN 1 ELSE 0)
    + (IF frame.evidence.evidence_ptr = p THEN 1 ELSE 0)

\* C1: no property read and no result release is performed on a Result View
\* whose originating manager's native resource has already been released.
C1_ManagerOutlivesViews ==
    \A i \in 1..Len(calls) : calls[i].fn \in ResultFunctions => calls[i].valid

\* C2: every native handle is passed to its free function at most once, every
\* free is given a handle the engine returned as a successful allocation of
\* that kind, and each live handle is owned by exactly one wrapper value.
C2_ExclusiveOwnership ==
    /\ \A p \in 1..Len(heap) : heap[p].frees <= 1
    /\ \A i \in 1..Len(calls) :
          calls[i].fn \in FreeFunctions =>
             /\ calls[i].h \in 1..Len(heap)
             /\ heap[calls[i].h].kind = FreedKind(calls[i].fn)
    /\ \A p \in 1..Len(heap) : Owners(p) = (IF Live(heap, p) THEN 1 ELSE 0)
    /\ Null \notin managers \cup views
    /\ pc = "add" => frame.evidence.evidence_ptr # Null

\* C2 witness: a handle of each kind has been freed while another is live and
\* owned.
C2_Witness ==
    /\ \A k \in {"manager", "evidence", "results"} :
          \E p \in 1..Len(heap) : heap[p].kind = k /\ heap[p].frees = 1
    /\ \E p \in 1..Len(heap) : Live(heap, p) /\ Owners(p) = 1

CreatedEvidence ==
    \E i \in 1..Len(calls) :
        calls[i].fn = "fiftyoneDegreesEvidenceCreate" /\ calls[i].out[1] # Null

CountCalls(fn) == Cardinality({ i \in 1..Len(calls) : calls[i].fn = fn })

\* C3: when detect has returned, with success or with an error, the evidence
\* handle it created has been freed exactly once and every result handle is
\* owned by a Result View or freed; once every wrapper has been released no
\* native handle remains allocated.
C3_ReleaseOnEveryPath ==
    /\ (ret.op = "detect" /\ ret.done) =>
          /\ CountCalls("fiftyoneDegreesEvidenceFree") = (IF CreatedEvidence THEN 1 ELSE 0)
          /\ \A i \in 1..Len(calls) :
                (calls[i].fn = "fiftyoneDegreesResultsHashCreate" /\ calls[i].out[1] # Null)
                   => (ret.ok /\ ret.val[2] = calls[i].out[1] /\ ret.val[2] \in views)
    /\ pc = "idle" =>
          /\ \A p \in 1..Len(heap) : heap[p].kind = "evidence" => heap[p].frees = 1
          /\ \A p \in 1..Len(heap) :
                heap[p].kind = "results" => (p \in views \/ heap[p].frees = 1)
    /\ (pc = "idle" /\ managers = {} /\ views = {}) =>
          \A p \in 1..Len(heap) : heap[p].frees = 1

KindCount(k) == Cardinality({ p \in 1..Len(heap) : heap[p].kind = k })

\* C3 witness: a detect that returned a Result View and a detect that failed
\* after creating its evidence handle have both run, and every wrapper has
\* since been released.
C3_Witness ==
    /\ pc = "idle" /\ managers = {} /\ views = {}
    /\ KindCount("results") >= 1
    /\ KindCount("evidence") > KindCount("results")

Reads == {"get_value", "get_value_as_string"}

\* The property token a read was called with.
ReadToken(r) ==
    IF r.op = "get_value_as_string" THEN PropertyName_to_str(r.input[2]) ELSE r.input[2]

BadPair(pair) == HasNul(EvidenceName_as_str(pair.name)) \/ HasNul(pair.val)

\* The position of the first pair with a NUL byte, 0 if there is none.
FirstBad(e) ==
    IF \E i \in 1..Len(e) : BadPair(e[i])
    THEN CHOOSE i \in 1..Len(e) : BadPair(e[i]) /\ \A j \in 1..(i - 1) : ~BadPair(e[j])
    ELSE 0

\* C4 as stated: a key, value or property name with a NUL byte always fails
\* with the encoding error before the operation makes any native call.
C4_NoNativeCallBeforeEncodingError ==
    /\ (ret.op = "detect" /\ ret.done /\ FirstBad(ret.input[2]) > 0) =>
          (~ret.ok /\ ret.err[1] = "CStringCreationError" /\ calls = <<>>)
    /\ (ret.op \in Reads /\ ret.done /\ HasNul(ReadToken(ret))) =>
          (~ret.ok /\ ret.err[1] = "CStringCreationError" /\ calls = <<>>)

EvidenceCallReturnedNull ==
    \E i \in 1..Len(calls) :
        /\ calls[i].fn \in {"fiftyoneDegreesEvidenceCreate", "fiftyoneDegreesEvidenceAddString"}
        /\ calls[i].out[1] = Null

\* C4 amended: a property name with a NUL byte fails the read with the
\* encoding error before any native call.  detect given a slice whose first
\* pair with a NUL byte is at position b never succeeds and never hands a
\* string with a NUL byte to the engine; by then it has made the evidence
\* create call and the add calls of the b-1 pairs before it, and it fails with
\* the encoding error for that string, freeing the evidence handle, unless
\* one of those calls returned null and failed the call first.
C4_EncodingErrorBeforeOwnNativeCall ==
    /\ (ret.op \in Reads /\ ret.done /\ HasNul(ReadToken(ret))) =>
          (~ret.ok /\ ret.err = CStringCreationError("PropertyName") /\ calls = <<>>)
    /\ \A i \in 1..Len(calls) :
          calls[i].fn = "fiftyoneDegreesEvidenceAddString" =>
             (~HasNul(calls[i].args[1]) /\ ~HasNul(calls[i].args[2]))
    /\ (ret.op = "detect" /\ ret.done /\ FirstBad(ret.input[2]) > 0) =>
          LET b == FirstBad(ret.input[2])
              pair == ret.input[2][b]
              kind == IF HasNul(EvidenceName_as_str(pair.name))
                      THEN "EvidenceKey" ELSE "EvidenceValue"
          IN
          /\ ~ret.ok
          /\ CountCalls("fiftyoneDegreesEvidenceAddString") <= b - 1
          /\ CountCalls("fiftyoneDegreesResultsHashCreate") = 0
          /\ IF EvidenceCallReturnedNull
             THEN ret.err[1] = "UnsafeOperationError"
             ELSE /\ ret.err = CStringCreationError(kind)
                  /\ Len(calls) = b + 1
                  /\ calls[1].fn = "fiftyoneDegreesEvidenceCreate"
                  /\ CountCalls("fiftyoneDegreesEvidenceAddString") = b - 1
                  /\ calls[b + 1].fn = "fiftyoneDegreesEvidenceFree"

\* C4 witness: detect failed with the encoding error on its second pair, after
\* the create call and the add call of the first pair.
C4_Witness ==
    /\ ret.op = "detect" /\ ret.done /\ ~ret.ok
    /\ FirstBad(ret.input[2]) = 2
    /\ ret.err[1] = "CStringCreationError"
    /\ CountCalls("fiftyoneDegreesEvidenceAddString") = 1

\* C5: whenever the engine raises a non-success exception during an
\* operation, the operation returns an engine error carrying that status, its
\* description and the engine's message.
C5_ExceptionIsReported ==
    (ret.done /\ raised # SUCCESS) =>
        /\ ~ret.ok
        /\ ret.err[1] = "InternalApiError"
        /\ ret.err[3] = raised
        /\ ret.err[4] = status_to_error_message(raised)
        /\ ret.err[5] = "engine message"

\* C6: detect with an empty slice fails with the assertion error for the
\* create-evidence operation and makes no engine call.
C6_EmptyEvidenceRejected ==
    (ret.op = "detect" /\ ret.done /\ Len(ret.input[2]) = 0) =>
        /\ ~ret.ok
        /\ ret.err = AssertionError("CreateEvidence",
                                    "Evidence data must contain at least one item")
        /\ calls = <<>>
        /\ pc = "idle"

\* C6 witness: detect has returned from a call with an empty slice.
C6_Witness == ret.op = "detect" /\ ret.done /\ Len(ret.input[2]) = 0

\* What a read of a property whose rendered value is `value` gives when the
\* value does not fill the buffer: "no value" for an empty value and, in the
\* filtering mode, for a sentinel; the value itself otherwise; an error when
\* the value is longer than the buffer.
ExpectedRead(op, value) ==
    LET buf_len == IF op = "get_value_as_string" THEN BufLenAsString ELSE BufLenValue IN
    IF Len(value) > buf_len THEN [ok |-> FALSE, val |-> <<>>]
    ELSE IF value = <<>> \/ (op = "get_value_as_string" /\ value \in {StrUnknown, StrNA})
    THEN [ok |-> TRUE, val |-> None]
    ELSE [ok |-> TRUE, val |-> Some(to_string_lossy(value))]

\* C7: the evidence handle of the detect that made a Result View is released
\* when detect has returned; the view holds what the engine matched on the
\* caller's strings; a read hands the engine the result handle only, the
\* engine renders into its buffer the value that the evidence given to
\* detect determines, and the read succeeds, fails or gives no value
\* accordingly; the String of get_value_as_string and an owned value of
\* get_value hold that value.
C7_ResultIndependentOfEvidence ==
    /\ \A v \in views :
          /\ Live(heap, v)
          /\ heap[origin[v].evidence].kind = "evidence"
          /\ heap[origin[v].evidence].frees = 1
          /\ origin[v].raised = SUCCESS => heap[v].matched = origin[v].subject
    /\ \A i \in 1..Len(calls) :
          calls[i].fn = "fiftyoneDegreesResultsHashGetValuesString" =>
             (calls[i].h \in views /\ heap[calls[i].h].kind = "results")
    /\ (/\ ret.op \in Reads /\ ret.done /\ calls # <<>> /\ raised = SUCCESS
        /\ origin[ret.input[1]].raised = SUCCESS
        /\ origin[ret.input[1]].manager \in managers
        /\ Len(DatasetValue(origin[ret.input[1]].subject, ReadToken(ret))) # BufLenAsString
        /\ Len(DatasetValue(origin[ret.input[1]].subject, ReadToken(ret))) # BufLenValue) =>
          LET expected == ExpectedRead(ret.op, DatasetValue(origin[ret.input[1]].subject,
                                                            ReadToken(ret)))
              value == DatasetValue(origin[ret.input[1]].subject, ReadToken(ret))
          IN /\ ret.ok = expected.ok
             /\ (ret.val = None) = (expected.val = None)
             /\ ret.ok => CStr_from_ptr(calls[1].out[2], <<>>) = value
             /\ ret.op = "get_value_as_string" => ret.val = expected.val
             /\ (ret.val # None /\ ret.op = "get_value") =>
                    (ret.val[1].variant = "Owned" =>
                        ret.val[1].bytes = expected.val[1])

\* C7 witness: a read returned a value from a Result View whose evidence
\* handle had been released.
C7_Witness ==
    /\ ret.op \in Reads /\ ret.done /\ ret.ok /\ ret.val # None
    /\ heap[origin[ret.input[1]].evidence].frees = 1

\* C8: every step of a detect call up to and including a return with an
\* error, and every read that returns an error, leaves the managers, the
\* standing Result Views and their native resources as they were.
C8_FailureIsolation ==
    [][(\/ pc' = "add"
        \/ ret'.done /\ ~ret'.ok /\ ret'.op \in Reads \cup {"detect"}) =>
          /\ managers' = managers
          /\ views' = views
          /\ origin' = origin
          /\ \A p \in managers \cup views : heap'[p] = heap[p] /\ Live(heap', p)]_vars

\* C8 witness: a detect failed after engine calls while a Result View of an
\* earlier detect was standing.
C8_Witness ==
    /\ ret.op = "detect" /\ ret.done /\ ~ret.ok /\ calls # <<>>
    /\ views # {} /\ managers # {}

\* C9: when the dataset-load call returns a non-success status or the engine
\* raises an exception during it, Manager::new returns an engine error with
\* that status and its description, no Manager, after exactly one load call.
C9_FailedLoadGivesNoManager ==
    (/\ ret.op = "new" /\ ret.done
     /\ CountCalls("fiftyoneDegreesHashInitManagerFromFile") >= 1
     /\ (calls[1].out[1] # SUCCESS \/ raised # SUCCESS)) =>
        /\ CountCalls("fiftyoneDegreesHashInitManagerFromFile") = 1
        /\ ~ret.ok
        /\ ret.err[1] = "InternalApiError"
        /\ ret.err[3] \in {calls[1].out[1], raised} \ {SUCCESS}
        /\ ret.err[4] = status_to_error_message(ret.err[3])

\* C10: Manager::new fails on a missing path with "file does not exist" and
\* on an existing path that is not a regular file with "is not a file", both
\* as the assertion error of the read-data-file operation, with no native call.
C10_PathPrecondition ==
    (ret.op = "new" /\ ret.done) =>
        /\ ~ret.input.data_file_path.exists =>
              /\ ~ret.ok
              /\ ret.err = AssertionError("ReadDataFile", "file does not exist")
              /\ calls = <<>>
        /\ (ret.input.data_file_path.exists /\ ~ret.input.data_file_path.is_file) =>
              /\ ~ret.ok
              /\ ret.err = AssertionError("ReadDataFile", "is not a file")
              /\ calls = <<>>

\* C10 witness: Manager::new has returned from a call on a missing path.
C10_Witness ==
    ret.op = "new" /\ ret.done /\ ~ret.input.data_file_path.exists /\ ~ret.ok

----------------------------------------------------------------------------
\* Reads.

\* The last public operation was a read that got as far as the engine.
ReadReturned == ret.done /\ ret.op \in Reads /\ Len(calls) = 1

\* What that read asked the engine for and what the engine answered.
ReadBufLen == calls[1].args[2]
ReadRequiredLen == calls[1].out[1]

\* The bytes of the value a read returned, as its caller reads them: those
\* of the String of get_value_as_string or of the Cow of get_value.
ReadValue ==
    IF ret.val = None THEN None
    ELSE IF ret.op = "get_value" THEN Some(ret.val[1].bytes)
    ELSE ret.val

\* C11: a read hands the engine a buffer of 64 bytes (get_value_as_string) or
\* 128 bytes (get_value), and whenever the required length the engine returns
\* is greater than that buffer length the read returns the "buffer too small"
\* error: no value, truncated or not, is returned.
C11_OverflowIsAnError ==
    ReadReturned =>
        /\ ReadBufLen = (IF ret.op = "get_value" THEN BufLenValue ELSE BufLenAsString)
        /\ ReadRequiredLen > ReadBufLen =>
               /\ ~ret.ok
               /\ ret.err = UnsafeOperationError(
                      <<"Buffer too small for property", ReadRequiredLen, ReadBufLen>>)

\* C11 witness: get_value has returned from a read for which the engine
\* required more than the 128 bytes of the buffer.
C11_Witness ==
    /\ ReadReturned
    /\ ret.op = "get_value"
    /\ ReadRequiredLen > BufLenValue
    /\ ~ret.ok

\* The read was answered by the engine from a result that holds a match and
\* whose manager is alive, without an exception: the engine rendered the
\* dataset's value of the property.
ReadRendered ==
    /\ ReadReturned
    /\ raised = SUCCESS
    /\ calls[1].valid
    /\ origin[ret.input[1]].raised = SUCCESS

RenderedValue == DatasetValue(origin[ret.input[1]].subject, ReadToken(ret))

Sentinels == {StrUnknown, StrNA}

\* C12 as stated: a rendered "Unknown" or "N/A" is no value for
\* get_value_as_string and the literal string for get_value, an empty
\* rendered value is no value for both, and any other rendered value that
\* fits the buffer is returned unchanged.
C12_SentinelFiltering ==
    ReadRendered =>
        CASE RenderedValue = <<>> -> ret.ok /\ ret.val = None
          [] RenderedValue \in Sentinels ->
                /\ ret.ok
                /\ ReadValue = (IF ret.op = "get_value_as_string" THEN None
                              ELSE Some(RenderedValue))
          [] Len(RenderedValue) < ReadBufLen -> ret.ok /\ ReadValue = Some(RenderedValue)
          [] OTHER -> TRUE

\* The tokens the dataset has a property for.
DatasetTokens == {StrIsMobile, StrBrowserName, StrBrowserVendor, StrHardwareName}

\* An allow-list that names a property the dataset does not have (and no
\* name with a NUL byte).
NamesUnsupported(property_names) ==
    /\ property_names # None
    /\ \E i \in 1..Len(property_names[1]) :
          PropertyName_to_str(property_names[1][i]) \notin DatasetTokens
    /\ \A i \in 1..Len(property_names[1]) :
          ~HasNul(PropertyName_to_str(property_names[1][i]))

\* C13: a read for which the engine returns required length 0 without
\* raising, as it does for a property name the dataset does not recognise,
\* returns Ok(None) in either mode; Manager::new with an allow-list naming
\* an unsupported property fails only when the load call does not return the
\* success status; and no error of detect is about a property name.
C13_UnrecognisedPropertyIsNoValue ==
    /\ (ReadReturned /\ raised = SUCCESS /\ ReadRequiredLen = 0) =>
          (ret.ok /\ ret.val = None)
    /\ (ReadRendered /\ ReadToken(ret) \notin DatasetTokens) =>
          (ReadRequiredLen = 0 /\ ret.ok /\ ret.val = None)
    /\ (/\ ret.op = "new" /\ ret.done
        /\ ret.input.data_file_path = PathFile
        /\ NamesUnsupported(ret.input.property_names)) =>
          /\ Len(calls) = 1
          /\ ret.ok <=> calls[1].out[1] = SUCCESS
    /\ (ret.op = "detect" /\ ret.done /\ ~ret.ok) =>
          /\ ret.err # CStringCreationError("PropertyName")
          /\ ret.err[1] = "InternalApiError" => ret.err[2] = "ApplyEvidence"

\* C13 witness: get_value_as_string has returned no value from a read of the
\* property Custom("Unknown"), which the dataset does not have.
C13_Witness ==
    /\ ReadRendered
    /\ ret.op = "get_value_as_string"
    /\ ret.input[2] = CustomProperty(StrUnknown)
    /\ ret.ok /\ ret.val = None

----------------------------------------------------------------------------
\* The load call.

\* Manager::new has returned from a call that got as far as the load call.
LoadCalled ==
    /\ ret.op = "new" /\ ret.done
    /\ Len(calls) = 1
    /\ calls[1].fn = "fiftyoneDegreesHashInitManagerFromFile"

\* The `properties` argument of the load call, and the allow-list the engine
\* read through it (none for a null pointer).
LoadProperties == calls[1].args[1]
LoadRequired == calls[1].out[2]

\* C14: with an empty allow-list as with an absent one, the `properties`
\* argument of the load call is the null pointer.
C14_EmptyAllowListIsNull ==
    (LoadCalled /\ ret.input.property_names \in {None, Some(<<>>)}) =>
        LoadProperties.null

\* The canonical tokens of an allow-list, in the order given, with "," between
\* them and nothing else.
RECURSIVE CommaSeparated(_)
CommaSeparated(names) ==
    IF Len(names) = 1 THEN PropertyName_to_str(names[1])
    ELSE PropertyName_to_str(names[1]) \o <<44>> \o CommaSeparated(Tail(names))

\* C15: with an allow-list of one or more identifiers the load call receives
\* the one string made of their canonical tokens joined by ","; with no
\* allow-list it receives null.
C15_AllowListIsCommaJoined ==
    LoadCalled =>
        /\ ret.input.property_names = None =>
              (LoadProperties.null /\ LoadRequired = <<>>)
        /\ (ret.input.property_names # None /\ Len(ret.input.property_names[1]) >= 1) =>
              /\ ~LoadProperties.null
              /\ LoadRequired = <<CommaSeparated(ret.input.property_names[1])>>

----------------------------------------------------------------------------
\* The pure functions of the layer, applied to inputs drawn at the start: a
\* pair of status codes, of property identifiers or of evidence identifiers.

\* The known status codes and two codes the match does not list.
StatusChoices == KnownStatus \cup {"STATUS_33", "STATUS_9999"}

PropertyIdentifiers ==
    { [variant |-> PropertyNameVariants[i]] : i \in 1..Len(PropertyNameVariants) }
    \cup { CustomProperty(StrUnknown), CustomProperty(StrIsMobile), CustomProperty(<<>>) }

EvidenceIdentifiers ==
    { UserAgent, SecChUa, SecChPlatform, CustomEvidence(StrUserAgent),
      CustomEvidence(<<120, 45, 105, 100>>), CustomEvidence(<<>>) }

CatalogInputs ==
    { Pending("status_to_error_message", <<a, b>>) : a \in StatusChoices, b \in StatusChoices }
    \cup { Pending("PropertyName::to_str", <<a, b>>) :
               a \in PropertyIdentifiers, b \in PropertyIdentifiers }
    \cup { Pending("EvidenceName::as_str", <<a, b>>) :
               a \in EvidenceIdentifiers, b \in EvidenceIdentifiers }

CatalogInit ==
    /\ heap = <<>>
    /\ managers = {}
    /\ views = {}
    /\ origin = <<>>
    /\ pc = "idle"
    /\ frame = NoFrame
    /\ calls = <<>>
    /\ raised = SUCCESS
    /\ ret \in CatalogInputs

ApplyStatusToErrorMessage ==
    /\ ret.op = "status_to_error_message" /\ ~ret.done
    /\ ret' = Returned(ret.op, ret.input,
                       Ok(<<status_to_error_message(ret.input[1]),
                            status_to_error_message(ret.input[2])>>))
    /\ UNCHANGED <<heap, managers, views, origin, pc, frame, calls, raised>>

ApplyToStr ==
    /\ ret.op = "PropertyName::to_str" /\ ~ret.done
    /\ ret' = Returned(ret.op, ret.input,
                       Ok(<<PropertyName_to_str(ret.input[1]),
                            PropertyName_to_str(ret.input[2])>>))
    /\ UNCHANGED <<heap, managers, views, origin, pc, frame, calls, raised>>

ApplyAsStr ==
    /\ ret.op = "EvidenceName::as_str" /\ ~ret.done
    /\ ret' = Returned(ret.op, ret.input,
                       Ok(<<EvidenceName_as_str(ret.input[1]),
                            EvidenceName_as_str(ret.input[2])>>))
    /\ UNCHANGED <<heap, managers, views, origin, pc, frame, calls, raised>>

CatalogNext ==
    \/ ApplyStatusToErrorMessage
    \/ ApplyToStr
    \/ ApplyAsStr

SpecCatalog == CatalogInit /\ [][CatalogNext]_vars

FallbackDescription == "Unknown error"

\* C16: status_to_error_message gives two distinct known status codes two
\* distinct descriptions, gives no known code the fallback description, and
\* gives every code outside the known set the fallback "Unknown error".
C16_StatusDescriptionsOneToOne ==
    (ret.op = "status_to_error_message" /\ ret.done) =>
        LET a == ret.input[1]
            b == ret.input[2]
        IN
        /\ ret.ok
        /\ (a \in KnownStatus /\ b \in KnownStatus /\ a # b) => ret.val[1] # ret.val[2]
        /\ a \in KnownStatus => ret.val[1] # FallbackDescription
        /\ a \notin KnownStatus => ret.val[1] = FallbackDescription

\* C16 witness: the function has been applied to two distinct known failure
\* codes.
C16_Witness ==
    /\ ret.op = "status_to_error_message" /\ ret.done
    /\ ret.input = <<"FILE_END_OF_DOCUMENT", "FILE_END_OF_DOCUMENTS">>
    /\ ret.val[1] # ret.val[2]

Enumerated(id) == id.variant # "Custom"

\* C17: every enumerated PropertyName and EvidenceName has a token, two
\* distinct enumerated identifiers of one catalog have distinct tokens, and
\* Custom(token) has exactly the token it was given.
C17_CatalogTotalInjective ==
    (ret.op \in {"PropertyName::to_str", "EvidenceName::as_str"} /\ ret.done) =>
        LET a == ret.input[1]
            b == ret.input[2]
        IN
        /\ ret.ok
        /\ Enumerated(a) => Len(ret.val[1]) > 0
        /\ (Enumerated(a) /\ Enumerated(b) /\ a # b) => ret.val[1] # ret.val[2]
        /\ ~Enumerated(a) => ret.val[1] = a.token

\* C17 witness: as_str has been applied to the two client-hint names.
C17_Witness ==
    /\ ret.op = "EvidenceName::as_str" /\ ret.done
    /\ ret.input = <<SecChUa, SecChPlatform>>
    /\ ret.val = <<StrSecChUa, StrSecChPlatform>>

----------------------------------------------------------------------------
\* Detect calls.

ManagerFree == "fiftyoneDegreesResourceManagerFree"

DetectSteps(n) ==
    <<"fiftyoneDegreesEvidenceCreate">>
    \o [i \in 1..n |-> "fiftyoneDegreesEvidenceAddString"]
    \o <<"fiftyoneDegreesResultsHashCreate", "fiftyoneDegreesResultsHashFromEvidence">>

\* How many calls at the head of the log are not releases.
StepsMade == Cardinality({ i \in 1..Len(calls) : calls[i].fn \notin FreeFunctions })

\* The call returned the null pointer.
ReturnedNull(call) == Len(call.out) >= 1 /\ call.out[1] = Null

\* C19: the engine calls of a detect over n >= 1 pairs are a prefix of
\* create(n), one add per pair in input order, result create, apply evidence,
\* followed by releases only: the one free of the evidence handle if it was
\* created.  A call that returned null is the last call that is not a
\* release, the prefix is complete exactly when detect returns a Result View,
\* and no call is made twice.
C19_DetectCallOrder ==
    (ret.op = "detect" /\ Len(ret.input[2]) >= 1) =>
        LET n == Len(ret.input[2])
            k == StepsMade
            pairs == Encoded(ret.input[2])
        IN
        /\ k >= 1 /\ k <= n + 3
        /\ \A i \in 1..k : calls[i].fn = DetectSteps(n)[i]
        /\ calls[1].args = <<n>>
        /\ \A i \in 2..k : i <= n + 1 =>
              (calls[i].h = calls[1].out[1] /\ calls[i].args = pairs[i - 1])
        /\ k >= n + 2 => calls[n + 2].h = ret.input[1]
        /\ k = n + 3 =>
              (calls[k].h = calls[n + 2].out[1] /\ calls[k].args = <<calls[1].out[1]>>)
        /\ \A i \in 1..(k - 1) : ~ReturnedNull(calls[i])
        /\ ~ret.done => Len(calls) = k
        /\ ret.done =>
              /\ ret.ok <=> k = n + 3
              /\ ReturnedNull(calls[k]) => ~ret.ok
              /\ Len(calls) = k + (IF ReturnedNull(calls[1]) THEN 0 ELSE 1)
              /\ Len(calls) > k =>
                    /\ calls[k + 1].fn = "fiftyoneDegreesEvidenceFree"
                    /\ calls[k + 1].h = calls[1].out[1]

\* C19 witness: a detect over two pairs has returned a Result View.
C19_Witness ==
    /\ ret.op = "detect" /\ ret.done /\ ret.ok
    /\ Len(ret.input[2]) = 2
    /\ Len(calls) = 6

----------------------------------------------------------------------------
\* Evidence buffers.

EvidenceFunctions ==
    { "fiftyoneDegreesEvidenceAddString", "fiftyoneDegreesResultsHashFromEvidence",
      "fiftyoneDegreesEvidenceFree" }

\* The add calls of the current detect that registered their pair.
SuccessfulAdds ==
    Cardinality({ i \in 1..Len(calls) :
                     /\ calls[i].fn = "fiftyoneDegreesEvidenceAddString"
                     /\ calls[i].out[1] # Null })

\* C20: while the evidence handle of a detect is live its Evidence retains
\* one (key, value) pair of encoded strings per successful add and no other,
\* in order, holding the bytes of the caller's pair at the addresses the
\* engine registered; and every engine call given the handle, its free
\* included, is made while every string registered with it is still
\* allocated.
C20_BuffersOutliveHandle ==
    /\ pc = "add" =>
          LET evidence == frame.evidence
              p == evidence.evidence_ptr
              pairs == Encoded(frame.evidence_data)
          IN
          /\ Live(heap, p)
          /\ heap[p].kind = "evidence"
          /\ Len(evidence.evidence_data) = SuccessfulAdds
          /\ Len(evidence.evidence_data) = frame.i - 1
          /\ Len(heap[p].entries) = Len(evidence.evidence_data)
          /\ \A j \in 1..Len(evidence.evidence_data) :
                /\ evidence.evidence_data[j][1].bytes = pairs[j][1]
                /\ evidence.evidence_data[j][2].bytes = pairs[j][2]
                /\ heap[p].entries[j] = [key |-> evidence.evidence_data[j][1].addr,
                                         val |-> evidence.evidence_data[j][2].addr]
          /\ PointersValid(heap, p, Memory(evidence))
    /\ ret.op = "detect" =>
          \A i \in 1..Len(calls) : calls[i].fn \in EvidenceFunctions => calls[i].valid

\* C20 witness: a detect has returned after a successful add followed by an
\* add that failed, and has freed its evidence handle.
C20_Witness ==
    /\ ret.op = "detect" /\ ret.done /\ ~ret.ok
    /\ SuccessfulAdds = 1
    /\ CountCalls("fiftyoneDegreesEvidenceAddString") = 2
    /\ calls[Len(calls)].fn = "fiftyoneDegreesEvidenceFree"
    /\ calls[Len(calls)].valid

----------------------------------------------------------------------------
\* C21: decoding stays inside the result buffer.

\* The buffer as the engine left it, and the C string at its start.
ReadBuffer == calls[1].out[2]
ReadCStr == CStr_from_ptr(ReadBuffer, <<>>)

\* The read got as far as decoding: the engine raised nothing and required no
\* more than the buffer holds.
ReadDecodes == ReadReturned /\ raised = SUCCESS /\ ReadRequiredLen <= ReadBufLen

----------------------------------------------------------------------------
\* C22: the two read modes differ only in the sentinels.

\* What the engine renders for `token` on the result `v` with the answer
\* `eng`.
Rendered(v, token, eng) ==
    IF Live(heap, v) /\ Live(heap, heap[v].dataset)
    THEN DatasetValue(heap[v].matched, token)
    ELSE eng.garbage

\* Both the same value, both no value, or both an error.
SameOutcome(string, cow) ==
    /\ string.ok = cow.ok
    /\ string.ok =>
          /\ (string.val = None) = (cow.val = None)
          /\ string.val # None => string.val[1] = cow.val[1].bytes

\* C22: for the same Result View, the same property token and the same
\* answer of the engine, whenever the rendered value is neither "Unknown"
\* nor "N/A", get_value_as_string and get_value give the same outcome,
\* whatever the length of the rendered value (the value of get_value taken
\* as it is built, before its buffer is released).
C22_ReadModesAgree ==
    \A v \in views, p \in PropertyChoices : \A eng \in ReadAnswers(p) :
        Rendered(v, PropertyName_to_str(p), eng) \notin Sentinels =>
            SameOutcome(ResultData_get_value_as_string(heap, v, p, eng).ret,
                        ResultData_get_value(heap, v, PropertyName_to_str(p), eng).ret)

----------------------------------------------------------------------------
\* C23: the value of get_value stays valid after the read.

\* C23: a value returned by get_value does not refer to the buffer of the
\* read, which is released when the read returns: the value owns its bytes,
\* and what its holder reads are the bytes that were decoded.
C23_ValueOutlivesBuffer ==
    (ReadReturned /\ ret.op = "get_value" /\ ret.ok /\ ret.val # None) =>
        /\ ret.val[1].variant = "Owned"
        /\ ret.val[1].bytes = to_string_lossy(ReadCStr)

----------------------------------------------------------------------------
\* C24: the arguments of the load call are alive at the call.

\* Which objects behind the arguments of the load call were alive.
LoadInScope == calls[1].args[3]

\* C24: at the load call of Manager::new the canonical path string, the
\* engine configuration and the zeroed manager resource are alive, and with
\* an allow-list so are the required-properties structure and the
\* comma-joined string it points to.
C24_LoadArgumentsAlive ==
    LoadCalled =>
        /\ LoadInScope.path_cstring
        /\ LoadInScope.config
        /\ LoadInScope.manager
        /\ ret.input.property_names # None =>
               /\ ~LoadProperties.null
               /\ LoadInScope.properties
               /\ LoadInScope.properties_cstring

----------------------------------------------------------------------------
\* C25: the context of an encoding failure names the kind of string.

CStringKinds == {"FilePath", "EvidenceKey", "EvidenceValue", "PropertyName",
                 "HashResultSeparator"}

\* An operation has returned the error of a string that could not be encoded.
EncodingFailed == ret.done /\ ~ret.ok /\ ret.err[1] = "CStringCreationError"

\* C25: the label that an encoding failure reports for the kind of string
\* that failed is the label of no other of the five kinds, and it names its
\* own kind: "evidence key" is reported for an evidence key only, "evidence
\* value" for an evidence value only, "property name" for a property name
\* only.
C25_EncodingFailureNamesItsKind ==
    EncodingFailed =>
        LET kind == ret.err[2]
            label == CStringKindDisplay(kind)
        IN
        /\ kind \in CStringKinds
        /\ \A other \in CStringKinds \ {kind} : CStringKindDisplay(other) # label
        /\ label = "evidence key" <=> kind = "EvidenceKey"
        /\ label = "evidence value" <=> kind = "EvidenceValue"
        /\ label = "property name" <=> kind = "PropertyName"

====
